---- MODULE Spec2Model ----
(***************************************************************************)
(* SCMI Clock Management Protocol support (mod_scmi_clock.c).              *)
(*                                                                         *)
(* The module is modelled as a state machine: the per-clock operation      *)
(* table (clock_ops), the lazily allocated tables of the default           *)
(* config-set policy (agent_clock_state, clock_count), the framework event *)
(* queue holding this module's request events, and the operations the      *)
(* clock HAL has answered FWK_PENDING.  One action per entry point:        *)
(* scmi_clock_message_handler (dispatcher and the handler it calls),       *)
(* process_request_event and process_response_event.                       *)
(***************************************************************************)
EXTENDS Integers, Sequences, FiniteSets, TLC

VARIABLES
    agent_table,        \* scmi_clock_ctx.agent_table (config, read-only)
    clock_ops,          \* scmi_clock_ctx.clock_ops[clock_dev_idx]
    agent_clock_state,  \* static table of the config-set policy, NULL at start
    clock_count,        \* static table of the config-set policy, NULL at start
    queue,              \* request events put with fwk_thread_put_event
    hw_pending,         \* per clock: operation the HAL answered FWK_PENDING
    last,               \* the entry point that ran last, with its inputs
    resp,               \* scmi_api->respond calls made by the last step
    hal,                \* clock_api calls made by the last step
    hooks,              \* policy hook invocations made by the last step
    wrote,              \* scmi_api->write_payload calls made by the last step
    acked,              \* per clock: the agents that were answered Success
                        \* to an enable and have not asked to disable since
    page                \* an agent reading the rates of a clock page by
                        \* page (SpecRates)

vars == <<agent_table, clock_ops, agent_clock_state, clock_count, queue,
          hw_pending, last, resp, hal, hooks, wrote, acked, page>>

----------------------------------------------------------------------------
(* Framework and protocol values                                           *)

(* FWK_ID_NONE: no service; services are numbered from 0 *)
FWK_ID_NONE == -1
NULL == <<>>

MOD_CLOCK_STATE_STOPPED == "MOD_CLOCK_STATE_STOPPED"
MOD_CLOCK_STATE_RUNNING == "MOD_CLOCK_STATE_RUNNING"
MOD_CLOCK_STATE_COUNT == "MOD_CLOCK_STATE_COUNT"

SCMI_CLOCK_REQUEST_GET_STATE == "GET_STATE"
SCMI_CLOCK_REQUEST_GET_RATE == "GET_RATE"
SCMI_CLOCK_REQUEST_SET_RATE == "SET_RATE"
SCMI_CLOCK_REQUEST_SET_STATE == "SET_STATE"
RequestTypes == {SCMI_CLOCK_REQUEST_GET_STATE, SCMI_CLOCK_REQUEST_GET_RATE,
                 SCMI_CLOCK_REQUEST_SET_RATE, SCMI_CLOCK_REQUEST_SET_STATE}

MOD_SCMI_CLOCK_PRE_MESSAGE_HANDLER == "PRE"
MOD_SCMI_CLOCK_POST_MESSAGE_HANDLER == "POST"
MOD_SCMI_CLOCK_SKIP_MESSAGE_HANDLER == "SKIP"
MOD_SCMI_CLOCK_EXECUTE_MESSAGE_HANDLER == "EXECUTE"

FWK_SUCCESS == "FWK_SUCCESS"
FWK_PENDING == "FWK_PENDING"
FWK_E_PARAM == "FWK_E_PARAM"
FWK_E_RANGE == "FWK_E_RANGE"
FWK_E_SUPPORT == "FWK_E_SUPPORT"
FWK_E_STATE == "FWK_E_STATE"
FWK_E_BUSY == "FWK_E_BUSY"
FWK_E_SIZE == "FWK_E_SIZE"
FWK_E_NOMEM == "FWK_E_NOMEM"
FWK_E_DEVICE == "FWK_E_DEVICE"
FWK_E_ACCESS == "FWK_E_ACCESS"

SCMI_SUCCESS == "SCMI_SUCCESS"
SCMI_NOT_SUPPORTED == "SCMI_NOT_SUPPORTED"
SCMI_INVALID_PARAMETERS == "SCMI_INVALID_PARAMETERS"
SCMI_DENIED == "SCMI_DENIED"
SCMI_NOT_FOUND == "SCMI_NOT_FOUND"
SCMI_OUT_OF_RANGE == "SCMI_OUT_OF_RANGE"
SCMI_BUSY == "SCMI_BUSY"
SCMI_GENERIC_ERROR == "SCMI_GENERIC_ERROR"
SCMI_PROTOCOL_ERROR == "SCMI_PROTOCOL_ERROR"

MOD_CLOCK_ROUND_MODE_NEAREST == "NEAREST"
MOD_CLOCK_ROUND_MODE_UP == "UP"
MOD_CLOCK_ROUND_MODE_DOWN == "DOWN"

MOD_CLOCK_RATE_TYPE_DISCRETE == "DISCRETE"
MOD_CLOCK_RATE_TYPE_CONTINUOUS == "CONTINUOUS"

(* The statuses the clock HAL returns from a call, and those it carries in *)
(* a completion event.                                                     *)
HalErrors == {FWK_E_SUPPORT, FWK_E_RANGE, FWK_E_PARAM, FWK_E_DEVICE}
HalCallStatus == {FWK_SUCCESS, FWK_PENDING} \cup HalErrors
HalEventStatus == {FWK_SUCCESS} \cup HalErrors

----------------------------------------------------------------------------
(* 64-bit rates.  A uint64_t is four 16-bit limbs and a uint32_t two,      *)
(* least significant first, so that the full width is kept.                *)

LimbBase == 2^16

RECURSIVE BitOr(_, _)
BitOr(a, b) ==
    IF a = 0 /\ b = 0 THEN 0
    ELSE (IF (a % 2 = 1) \/ (b % 2 = 1) THEN 1 ELSE 0)
         + 2 * BitOr(a \div 2, b \div 2)

(* (uint32_t)x *)
ToU32(x) == <<x[1], x[2]>>
(* (uint64_t)w *)
ToU64(w) == <<w[1], w[2], 0, 0>>
(* x >> 32 *)
Shr32(x) == <<x[3], x[4], 0, 0>>
(* x << 32 *)
Shl32(x) == <<0, 0, x[1], x[2]>>
(* a | b *)
Or64(a, b) == [i \in 1..4 |-> BitOr(a[i], b[i])]
(* a + b, modulo 2^64 *)
Carry(a, b, i) ==
    LET c1 == (a[1] + b[1]) \div LimbBase
        c2 == (a[2] + b[2] + c1) \div LimbBase
        c3 == (a[3] + b[3] + c2) \div LimbBase
    IN  IF i = 1 THEN 0 ELSE IF i = 2 THEN c1 ELSE IF i = 3 THEN c2 ELSE c3
Add64(a, b) == [i \in 1..4 |-> (a[i] + b[i] + Carry(a, b, i)) % LimbBase]

(* The 64-bit rate of a set-rate request, rebuilt from its two words       *)
(* (scmi_clock_rate_set_handler).                                          *)
RateFromWordsBroken(rate) == Or64(ToU64(rate[2]), ToU64(rate[1]))
RateFromWords(rate) == Or64(Shl32(ToU64(rate[2])), ToU64(rate[1]))

(* The two words of a 64-bit rate, low word first (the request data of the *)
(* set-rate event, the rate-get response, the describe-rates entries).     *)
RateToWordsBroken(rate) == <<ToU32(rate), ToU32(rate)>>
RateToWords(rate) == <<ToU32(rate), ToU32(Shr32(rate))>>

(* The rate process_request_event rebuilds from the set-rate event data.   *)
RateFromEventBroken(rate) == Add64(ToU64(rate[1]), ToU64(rate[2]))
RateFromEvent(rate) == Add64(ToU64(rate[1]), Shl32(ToU64(rate[2])))

Zero32 == <<0, 0>>
Max32 == <<LimbBase - 1, LimbBase - 1>>
Zero64 == <<0, 0, 0, 0>>
Max64 == <<LimbBase - 1, LimbBase - 1, LimbBase - 1, LimbBase - 1>>

----------------------------------------------------------------------------
(* Configuration.  Each agent has a device table: the agent-local clock    *)
(* index selects an entry naming the clock element (element_idx is         *)
(* fwk_id_get_element_idx(element_id)) and its starts_enabled flag.        *)

Dev(e, en) == [element_idx |-> e, starts_enabled |-> en]

(* Two agents share clock 0, both as their index 0; neither starts it.     *)
ConfigShared == << <<Dev(0, FALSE)>>, <<Dev(0, FALSE)>> >>
(* Two agents share clock 1 as their index 0; it starts enabled for        *)
(* agent 0.                                                                *)
ConfigOffset == << <<Dev(1, TRUE)>>, <<Dev(1, FALSE)>> >>
(* One agent sees both clocks; clock 1 starts enabled.                     *)
ConfigPair == << <<Dev(0, FALSE), Dev(1, TRUE)>> >>
Configs == {ConfigShared, ConfigOffset, ConfigPair}
(* Agent 0 sees clocks 0 and 1; agent 1 sees clock 1 as its index 0.       *)
ConfigCross == << <<Dev(0, FALSE), Dev(1, FALSE)>>, <<Dev(1, FALSE)>> >>
(* Two agents share clock 0, which starts enabled for both.                *)
ConfigBoth == << <<Dev(0, TRUE)>>, <<Dev(0, TRUE)>> >>
PolicyConfigs == Configs \cup {ConfigCross, ConfigBoth}

(* scmi_clock_ctx.config->agent_count *)
agent_count == Len(agent_table)
(* scmi_clock_ctx.clock_devices: the element count of the clock module     *)
clock_devices == 2

ClockDevIdx == 0..(clock_devices - 1)

(* One SCMI service per agent: scmi_api->get_agent_id(service_id) is the   *)
(* agent of that service.                                                  *)
Services == 0..(Len(agent_table) - 1)
get_agent_id(service_id) == service_id

device_count(agent_id) == Len(agent_table[agent_id + 1])
device_table(agent_id, clock_idx) == agent_table[agent_id + 1][clock_idx + 1]

(* get_agent_entry: the status, and the agent entry on success *)
get_agent_entry(service_id) ==
    IF get_agent_id(service_id) >= agent_count
    THEN [status |-> FWK_E_PARAM, agent |-> 0]
    ELSE [status |-> FWK_SUCCESS, agent |-> get_agent_id(service_id)]

(* The range test of get_clock_device_entry and get/set_agent_clock_state  *)
IndexOutOfRangeOffByOne(clock_idx, count) == clock_idx > count
IndexOutOfRange(clock_idx, count) == clock_idx >= count

(* get_clock_device_entry: the status and, on success, the device entry    *)
get_clock_device_entry(service_id, clock_idx) ==
    LET e == get_agent_entry(service_id) IN
    IF e.status # FWK_SUCCESS
    THEN [status |-> e.status, agent |-> 0, element_idx |-> 0]
    ELSE IF IndexOutOfRange(clock_idx, device_count(e.agent))
    THEN [status |-> FWK_E_RANGE, agent |-> e.agent, element_idx |-> 0]
    ELSE [status |-> FWK_SUCCESS, agent |-> e.agent,
          element_idx |-> device_table(e.agent, clock_idx).element_idx]

----------------------------------------------------------------------------
(* Clock operations table                                                  *)

ClockOp(service_id, state, clock_dev_id, request) ==
    [service_id |-> service_id, state |-> state,
     clock_dev_id |-> clock_dev_id, request |-> request]

(* scmi_clock_init: the table is zero-allocated, then every service_id is  *)
(* set to FWK_ID_NONE.                                                     *)
InitClockOps ==
    [c \in ClockDevIdx |->
        ClockOp(FWK_ID_NONE, MOD_CLOCK_STATE_STOPPED, 0,
                SCMI_CLOCK_REQUEST_GET_STATE)]

clock_ops_set_busy_Unowned(ops, clock_dev_idx, service_id, clock_dev_id, state, request) ==
    [ops EXCEPT ![clock_dev_idx] =
        ClockOp(FWK_ID_NONE, state, clock_dev_id, request)]
clock_ops_set_busy_All(ops, clock_dev_idx, service_id, clock_dev_id, state, request) ==
    [c \in DOMAIN ops |-> ClockOp(service_id, state, clock_dev_id, request)]
clock_ops_set_busy(ops, clock_dev_idx, service_id, clock_dev_id, state, request) ==
    [ops EXCEPT ![clock_dev_idx] =
        ClockOp(service_id, state, clock_dev_id, request)]

clock_ops_set_available_Keep(ops, clock_dev_idx) == ops
clock_ops_set_available(ops, clock_dev_idx) ==
    [ops EXCEPT ![clock_dev_idx].service_id = FWK_ID_NONE]

clock_ops_get_service_Next(clock_dev_idx) ==
    clock_ops[(clock_dev_idx + 1) % clock_devices].service_id
clock_ops_get_service(clock_dev_idx) == clock_ops[clock_dev_idx].service_id

clock_ops_is_available_Always(clock_dev_idx) == TRUE
clock_ops_is_available(clock_dev_idx) ==
    clock_ops[clock_dev_idx].service_id = FWK_ID_NONE

----------------------------------------------------------------------------
(* Responses.  A response is the service it is sent to, its status, its    *)
(* shape (which structure its size covers) and the values it carries.      *)

Response(service_id, status, shape, value) ==
    [service_id |-> service_id, status |-> status, shape |-> shape,
     value |-> value]
StatusOnly(service_id, status) == Response(service_id, status, "status", <<>>)

get_state_respond(clock_dev_id, service_id, clock_state, status) ==
    IF status = FWK_SUCCESS
    THEN Response(service_id, SCMI_SUCCESS, "clock_attributes",
                  <<clock_state = MOD_CLOCK_STATE_RUNNING, clock_dev_id>>)
    ELSE StatusOnly(service_id, SCMI_GENERIC_ERROR)

get_rate_respond(service_id, rate, status) ==
    IF status = FWK_SUCCESS
    THEN Response(service_id, SCMI_SUCCESS, "rate", RateToWords(rate))
    ELSE StatusOnly(service_id, SCMI_GENERIC_ERROR)

request_response(response_status, service_id) ==
    StatusOnly(service_id,
        IF response_status = FWK_E_RANGE THEN SCMI_INVALID_PARAMETERS
        ELSE IF response_status = FWK_E_SUPPORT THEN SCMI_NOT_SUPPORTED
        ELSE SCMI_GENERIC_ERROR)

set_request_respond(service_id, status) ==
    StatusOnly(service_id,
        IF status = FWK_E_RANGE \/ status = FWK_E_PARAM
        THEN SCMI_INVALID_PARAMETERS
        ELSE IF status = FWK_E_SUPPORT THEN SCMI_NOT_SUPPORTED
        ELSE IF status # FWK_SUCCESS THEN SCMI_GENERIC_ERROR
        ELSE SCMI_SUCCESS)

----------------------------------------------------------------------------
(* Policy hooks                                                            *)

(* An invocation of a policy: its arguments, and the status and policy     *)
(* status it returned.                                                     *)
HookCall(hook, policy_commit, service_id, clock_dev_id, arg, pol) ==
    [hook |-> hook, policy_commit |-> policy_commit, service_id |-> service_id,
     clock_dev_id |-> clock_dev_id, arg |-> arg, status |-> pol.status,
     policy_status |-> pol.policy_status]

(* mod_scmi_clock_rate_set_policy (default): always execute, nothing       *)
(* rewritten.                                                              *)
mod_scmi_clock_rate_set_policy(round_mode, rate, policy_commit, service_id, clock_dev_id) ==
    [status |-> FWK_SUCCESS,
     policy_status |-> MOD_SCMI_CLOCK_EXECUTE_MESSAGE_HANDLER,
     round_mode |-> round_mode, rate |-> rate]

(* Index of an agent:clock pair in agent_clock_state *)
AgentClockIdx(agent_id, clock_idx) == (agent_id * clock_devices) + clock_idx

(* The tables as the first invocation of the config-set policy allocates   *)
(* and seeds them: zeroed (STOPPED, count 0), then for every agent and     *)
(* every index of its device table with starts_enabled, RUNNING and one    *)
(* more on the count at that index.  The counts are uint8_t.               *)
SeededAgentClockState ==
    [idx \in 0..(agent_count * clock_devices - 1) |->
        LET a == idx \div clock_devices
            c == idx % clock_devices
        IN  IF c < device_count(a) /\ device_table(a, c).starts_enabled
            THEN MOD_CLOCK_STATE_RUNNING
            ELSE MOD_CLOCK_STATE_STOPPED]

SeededClockCount ==
    [c \in ClockDevIdx |->
        Cardinality({a \in 0..(agent_count - 1) :
            c < device_count(a) /\ device_table(a, c).starts_enabled}) % 256]

(* get_agent_clock_state *)
get_agent_clock_state(service_id, clock_idx, table) ==
    LET e == get_agent_entry(service_id) IN
    IF e.status # FWK_SUCCESS
    THEN [status |-> e.status, state |-> MOD_CLOCK_STATE_STOPPED]
    ELSE IF IndexOutOfRange(clock_idx, device_count(e.agent))
    THEN [status |-> FWK_E_RANGE, state |-> MOD_CLOCK_STATE_STOPPED]
    ELSE [status |-> FWK_SUCCESS,
          state |-> table[AgentClockIdx(get_agent_id(service_id), clock_idx)]]

(* set_agent_clock_state: the table after the call *)
set_agent_clock_state(table, state, service_id, clock_idx) ==
    LET e == get_agent_entry(service_id) IN
    IF e.status # FWK_SUCCESS THEN table
    ELSE IF IndexOutOfRange(clock_idx, device_count(e.agent)) THEN table
    ELSE [table EXCEPT
            ![AgentClockIdx(get_agent_id(service_id), clock_idx)] = state]

(* "The agent has already requested to set state to ..." *)
AlreadyRequestedNever(clock_state, state) == FALSE
AlreadyRequested(clock_state, state) == clock_state = state

(* The table updates of the policy are made in post-message mode only.     *)
CommitsAlways(policy_commit) == TRUE
Commits(policy_commit) == policy_commit = MOD_SCMI_CLOCK_POST_MESSAGE_HANDLER

(* mod_scmi_clock_config_set_policy (default), after the allocation of     *)
(* its tables: the returned status, the policy status, and the two tables  *)
(* after the call, from the tables tab and cnt before it.                  *)
config_set_policy_switch(tab, cnt, state, policy_commit, service_id, clock_dev_id) ==
    LET g == get_agent_clock_state(service_id, clock_dev_id, tab)
        R(st, ps, t, c) == [status |-> st, policy_status |-> ps,
                            agent_clock_state |-> t, clock_count |-> c]
        Decide(st) == IF st = FWK_SUCCESS
                      THEN MOD_SCMI_CLOCK_EXECUTE_MESSAGE_HANDLER
                      ELSE MOD_SCMI_CLOCK_SKIP_MESSAGE_HANDLER
    IN
    IF g.status # FWK_SUCCESS
    THEN R(g.status, MOD_SCMI_CLOCK_SKIP_MESSAGE_HANDLER, tab, cnt)
    ELSE IF state = MOD_CLOCK_STATE_RUNNING
    THEN IF AlreadyRequested(g.state, MOD_CLOCK_STATE_RUNNING)
         THEN R(FWK_SUCCESS, MOD_SCMI_CLOCK_SKIP_MESSAGE_HANDLER, tab, cnt)
         ELSE R(FWK_SUCCESS,
                Decide(IF cnt[clock_dev_id] # 0 THEN FWK_E_STATE
                       ELSE FWK_SUCCESS),
                IF Commits(policy_commit)
                THEN set_agent_clock_state(tab, MOD_CLOCK_STATE_RUNNING,
                                           service_id, clock_dev_id)
                ELSE tab,
                IF Commits(policy_commit)
                THEN [cnt EXCEPT ![clock_dev_id] = (@ + 1) % 256]
                ELSE cnt)
    ELSE IF state = MOD_CLOCK_STATE_STOPPED
    THEN IF AlreadyRequested(g.state, MOD_CLOCK_STATE_STOPPED)
         THEN R(FWK_SUCCESS, MOD_SCMI_CLOCK_SKIP_MESSAGE_HANDLER, tab, cnt)
         ELSE IF cnt[clock_dev_id] = 0
         THEN R(FWK_E_STATE, MOD_SCMI_CLOCK_SKIP_MESSAGE_HANDLER, tab, cnt)
         ELSE R(FWK_SUCCESS,
                Decide(IF cnt[clock_dev_id] # 1 THEN FWK_E_STATE
                       ELSE FWK_SUCCESS),
                IF Commits(policy_commit)
                THEN set_agent_clock_state(tab, MOD_CLOCK_STATE_STOPPED,
                                           service_id, clock_dev_id)
                ELSE tab,
                IF Commits(policy_commit)
                THEN [cnt EXCEPT ![clock_dev_id] = (@ + 255) % 256]
                ELSE cnt)
    ELSE R(FWK_E_PARAM, MOD_SCMI_CLOCK_SKIP_MESSAGE_HANDLER, tab, cnt)

mod_scmi_clock_config_set_policy(state, policy_commit, service_id, clock_dev_id) ==
    config_set_policy_switch(
        IF agent_clock_state = NULL THEN SeededAgentClockState
        ELSE agent_clock_state,
        IF agent_clock_state = NULL THEN SeededClockCount ELSE clock_count,
        state, policy_commit, service_id, clock_dev_id)

----------------------------------------------------------------------------
(* Request events                                                          *)

Event(id, clock_dev_id, rate, round_mode, state) ==
    [id |-> id, clock_dev_id |-> clock_dev_id, rate |-> rate,
     round_mode |-> round_mode, state |-> state]

(* The data a handler passes to create_event_request (NULL for the get     *)
(* requests: the event parameters stay zero).                              *)
RequestData(rate, round_mode, state) ==
    [rate |-> rate, round_mode |-> round_mode, state |-> state]
NoData == RequestData(<<Zero32, Zero32>>, "NONE", MOD_CLOCK_STATE_STOPPED)

(* The busy test at the head of create_event_request *)
SlotBusyNever(clock_dev_idx) == FALSE
SlotBusy(clock_dev_idx) == ~clock_ops_is_available(clock_dev_idx)

(* fwk_thread_put_event: the event is queued when the framework accepts it *)
fwk_thread_put_event(q, event, put_status) ==
    IF put_status = FWK_SUCCESS THEN Append(q, event) ELSE q

(* The early return of create_event_request when the put failed *)
PutFailedNever(status) == FALSE
PutFailed(status) == status # FWK_SUCCESS

(* create_event_request: its status, and the operations table and the      *)
(* event queue after the call.  put_status is what fwk_thread_put_event    *)
(* returns.                                                                *)
create_event_request(clock_id, service_id, request, data, clock_idx, put_status) ==
    LET clock_dev_idx == clock_id
        state == IF request = SCMI_CLOCK_REQUEST_SET_STATE THEN data.state
                 ELSE MOD_CLOCK_STATE_COUNT
        event == IF request = SCMI_CLOCK_REQUEST_SET_RATE
                 THEN Event(request, clock_id, data.rate, data.round_mode,
                            NoData.state)
                 ELSE IF request = SCMI_CLOCK_REQUEST_SET_STATE
                 THEN Event(request, clock_id, NoData.rate, NoData.round_mode,
                            data.state)
                 ELSE Event(request, clock_id, NoData.rate, NoData.round_mode,
                            NoData.state)
        R(st, ops, q) == [status |-> st, clock_ops |-> ops, queue |-> q,
                          clock_dev_idx |-> clock_dev_idx]
    IN
    IF SlotBusy(clock_dev_idx) THEN R(FWK_E_BUSY, clock_ops, queue)
    ELSE IF request \notin RequestTypes THEN R(FWK_E_PARAM, clock_ops, queue)
    ELSE IF PutFailed(put_status)
    THEN R(put_status, clock_ops, fwk_thread_put_event(queue, event, put_status))
    ELSE R(FWK_SUCCESS,
           clock_ops_set_busy(clock_ops, clock_dev_idx, service_id, clock_idx,
                              state, request),
           fwk_thread_put_event(queue, event, put_status))

----------------------------------------------------------------------------
(* Message handlers.  A handler yields its effect: the value it returns,   *)
(* the calls it made (respond, policy hooks, write_payload), the outcome   *)
(* of create_event_request when it called it, and the module state after.  *)

Effect(ret, responses, hook_calls, writes, cer, ops, q, tab, cnt) ==
    [ret |-> ret, resp |-> responses, hooks |-> hook_calls, wrote |-> writes,
     cer |-> cer, clock_ops |-> ops, queue |-> q,
     agent_clock_state |-> tab, clock_count |-> cnt]

NotCalled == [called |-> FALSE, clock_dev_idx |-> 0, status |-> FWK_SUCCESS]
Called(r) == [called |-> TRUE, clock_dev_idx |-> r.clock_dev_idx,
              status |-> r.status]

(* A handler that only responds *)
Answer(ret, response) ==
    Effect(ret, <<response>>, <<>>, <<>>, NotCalled, clock_ops, queue,
           agent_clock_state, clock_count)

(* The tail shared by the four handlers that queue a request: the response *)
(* and return value that follow create_event_request.  On FWK_E_BUSY the   *)
(* agent is answered SCMI_BUSY and the handler returns FWK_SUCCESS; on     *)
(* another failure the response is the status-only SCMI_GENERIC_ERROR; on  *)
(* success nothing is answered yet.                                        *)
AfterRequest(service_id, r, ret_on_error, hook_calls, tab, cnt) ==
    IF r.status = FWK_E_BUSY
    THEN Effect(FWK_SUCCESS, <<StatusOnly(service_id, SCMI_BUSY)>>,
                hook_calls, <<>>, Called(r), r.clock_ops, r.queue, tab, cnt)
    ELSE IF r.status # FWK_SUCCESS
    THEN Effect(ret_on_error, <<StatusOnly(service_id, SCMI_GENERIC_ERROR)>>,
                hook_calls, <<>>, Called(r), r.clock_ops, r.queue, tab, cnt)
    ELSE Effect(FWK_SUCCESS, <<>>, hook_calls, <<>>, Called(r), r.clock_ops,
                r.queue, tab, cnt)

(* The status answered when get_clock_device_entry fails *)
EntryFailureStatus(status) == SCMI_NOT_FOUND

scmi_clock_protocol_version_handler(service_id, payload, env) ==
    Answer(FWK_SUCCESS,
           Response(service_id, SCMI_SUCCESS, "protocol_version", <<>>))

scmi_clock_protocol_attributes_handler(service_id, payload, env) ==
    LET e == get_agent_entry(service_id) IN
    IF e.status # FWK_SUCCESS
    THEN Answer(e.status,
                Response(service_id, SCMI_GENERIC_ERROR,
                         "protocol_attributes", <<>>))
    ELSE Answer(FWK_SUCCESS,
                Response(service_id, SCMI_SUCCESS, "protocol_attributes",
                         <<device_count(e.agent)>>))

scmi_clock_attributes_handler(service_id, payload, env) ==
    LET d == get_clock_device_entry(service_id, payload.clock_id) IN
    IF d.status # FWK_SUCCESS
    THEN Answer(d.status, StatusOnly(service_id, EntryFailureStatus(d.status)))
    ELSE LET r == create_event_request(d.element_idx, service_id,
                      SCMI_CLOCK_REQUEST_GET_STATE, NoData, payload.clock_id,
                      env.put_status)
         IN  AfterRequest(service_id, r, r.status, <<>>, agent_clock_state,
                          clock_count)

scmi_clock_rate_get_handler(service_id, payload, env) ==
    LET d == get_clock_device_entry(service_id, payload.clock_id) IN
    IF d.status # FWK_SUCCESS
    THEN Answer(d.status, StatusOnly(service_id, EntryFailureStatus(d.status)))
    ELSE LET r == create_event_request(d.element_idx, service_id,
                      SCMI_CLOCK_REQUEST_GET_RATE, NoData, payload.clock_id,
                      env.put_status)
         IN  AfterRequest(service_id, r, r.status, <<>>, agent_clock_state,
                          clock_count)

(* handler_table, indexed by message_id (from 0) *)
handler_table ==
    <<"PROTOCOL_VERSION", "PROTOCOL_ATTRIBUTES", "PROTOCOL_MESSAGE_ATTRIBUTES",
      "CLOCK_ATTRIBUTES", "CLOCK_DESCRIBE_RATES", "CLOCK_RATE_SET",
      "CLOCK_RATE_GET", "CLOCK_CONFIG_SET">>

(* message_id >= FWK_ARRAY_SIZE(handler_table) *)
UnknownMessageOffByOne(message_id) == message_id > Len(handler_table)
UnknownMessage(message_id) == message_id >= Len(handler_table)

scmi_clock_protocol_message_attributes_handler(service_id, payload, env) ==
    IF UnknownMessage(payload.message_id)
    THEN Answer(FWK_SUCCESS, StatusOnly(service_id, SCMI_NOT_FOUND))
    ELSE Answer(FWK_SUCCESS,
                Response(service_id, SCMI_SUCCESS,
                         "protocol_message_attributes", <<0>>))

(* Flag bits of CLOCK_RATE_SET and attribute bits of CLOCK_CONFIG_SET, by  *)
(* name; a flags word is the set of its bits that are 1.                   *)
SCMI_CLOCK_RATE_SET_ASYNC_MASK == {"ASYNC"}
SCMI_CLOCK_RATE_SET_ROUND_UP_MASK == {"ROUND_UP"}
SCMI_CLOCK_RATE_SET_ROUND_AUTO_MASK == {"ROUND_AUTO"}
SCMI_CLOCK_RATE_SET_FLAGS_MASK ==
    SCMI_CLOCK_RATE_SET_ASYNC_MASK \cup SCMI_CLOCK_RATE_SET_ROUND_UP_MASK
        \cup SCMI_CLOCK_RATE_SET_ROUND_AUTO_MASK
SCMI_CLOCK_CONFIG_SET_ENABLE_MASK == {"ENABLE"}

(* (word & ~mask) != 0 *)
HasBitsOutsideNever(word, mask) == FALSE
HasBitsOutside(word, mask) == (word \ mask) # {}
(* word & mask, as a bool *)
HasBitNever(word, mask) == FALSE
HasBit(word, mask) == (word \cap mask) # {}

(* round_mode chosen from the flags *)
RoundModeOf(flags) ==
    IF HasBit(flags, SCMI_CLOCK_RATE_SET_ROUND_AUTO_MASK)
    THEN MOD_CLOCK_ROUND_MODE_NEAREST
    ELSE IF HasBit(flags, SCMI_CLOCK_RATE_SET_ROUND_UP_MASK)
    THEN MOD_CLOCK_ROUND_MODE_UP
    ELSE MOD_CLOCK_ROUND_MODE_DOWN

(* The test made on the status a policy returned in pre-message mode *)
PolicyFailedNever(status) == FALSE
PolicyFailed(status) == status # FWK_SUCCESS

(* The test made on the policy status after a successful pre-message call *)
PolicySkipsNever(policy_status) == FALSE
PolicySkips(policy_status) ==
    policy_status = MOD_SCMI_CLOCK_SKIP_MESSAGE_HANDLER

(* scmi_clock_rate_set_handler from the return of the rate-set policy, pol *)
rate_set_after_policy(service_id, payload, env, element_idx, pol) ==
    LET call == <<HookCall("rate_set", MOD_SCMI_CLOCK_PRE_MESSAGE_HANDLER,
                           service_id, payload.clock_id,
                           RateFromWords(payload.rate), pol)>>
        data == RequestData(RateToWords(pol.rate), pol.round_mode,
                            NoData.state)
        Hooked(response) ==
            Effect(FWK_SUCCESS, <<response>>, call, <<>>, NotCalled, clock_ops,
                   queue, agent_clock_state, clock_count)
    IN
    IF PolicyFailed(pol.status)
    THEN Hooked(StatusOnly(service_id, SCMI_GENERIC_ERROR))
    ELSE IF PolicySkips(pol.policy_status)
    THEN Hooked(StatusOnly(service_id, SCMI_SUCCESS))
    ELSE LET r == create_event_request(element_idx, service_id,
                      SCMI_CLOCK_REQUEST_SET_RATE, data, payload.clock_id,
                      env.put_status)
         IN  AfterRequest(service_id, r, FWK_SUCCESS, call, agent_clock_state,
                          clock_count)

scmi_clock_rate_set_handler(service_id, payload, env) ==
    LET d == get_clock_device_entry(service_id, payload.clock_id)
        rate == RateFromWords(payload.rate)
        round_mode == RoundModeOf(payload.flags)
    IN
    IF HasBitsOutside(payload.flags, SCMI_CLOCK_RATE_SET_FLAGS_MASK)
    THEN Answer(FWK_SUCCESS, StatusOnly(service_id, SCMI_INVALID_PARAMETERS))
    ELSE IF d.status # FWK_SUCCESS
    THEN Answer(FWK_SUCCESS,
                StatusOnly(service_id, EntryFailureStatus(d.status)))
    ELSE IF HasBit(payload.flags, SCMI_CLOCK_RATE_SET_ASYNC_MASK)
    THEN Answer(FWK_SUCCESS, StatusOnly(service_id, SCMI_NOT_SUPPORTED))
    ELSE rate_set_after_policy(service_id, payload, env, d.element_idx,
             mod_scmi_clock_rate_set_policy(round_mode, rate,
                 MOD_SCMI_CLOCK_PRE_MESSAGE_HANDLER, service_id,
                 payload.clock_id))

(* The state a ConfigSet asks for *)
ConfigSetState(attributes) ==
    IF HasBit(attributes, SCMI_CLOCK_CONFIG_SET_ENABLE_MASK)
    THEN MOD_CLOCK_STATE_RUNNING
    ELSE MOD_CLOCK_STATE_STOPPED

(* scmi_clock_config_set_handler from the return of the config-set policy, *)
(* pol, called with state                                                  *)
config_set_after_policy(service_id, payload, env, element_idx, state, pol) ==
    LET call == <<HookCall("config_set", MOD_SCMI_CLOCK_PRE_MESSAGE_HANDLER,
                           service_id, payload.clock_id, state, pol)>>
        data == RequestData(NoData.rate, NoData.round_mode, state)
        Hooked(response) ==
            Effect(FWK_SUCCESS, <<response>>, call, <<>>, NotCalled, clock_ops,
                   queue, pol.agent_clock_state, pol.clock_count)
    IN
    IF PolicyFailed(pol.status)
    THEN Hooked(StatusOnly(service_id, SCMI_GENERIC_ERROR))
    ELSE IF PolicySkips(pol.policy_status)
    THEN Hooked(StatusOnly(service_id, SCMI_SUCCESS))
    ELSE LET r == create_event_request(element_idx, service_id,
                      SCMI_CLOCK_REQUEST_SET_STATE, data, payload.clock_id,
                      env.put_status)
         IN  AfterRequest(service_id, r, FWK_SUCCESS, call,
                          pol.agent_clock_state, pol.clock_count)

scmi_clock_config_set_handler(service_id, payload, env) ==
    LET d == get_clock_device_entry(service_id, payload.clock_id)
        state == ConfigSetState(payload.attributes)
    IN
    IF d.status # FWK_SUCCESS
    THEN Answer(FWK_SUCCESS,
                StatusOnly(service_id, EntryFailureStatus(d.status)))
    ELSE IF HasBitsOutside(payload.attributes,
                           SCMI_CLOCK_CONFIG_SET_ENABLE_MASK)
    THEN Answer(FWK_SUCCESS, StatusOnly(service_id, SCMI_INVALID_PARAMETERS))
    ELSE config_set_after_policy(service_id, payload, env, d.element_idx,
             state,
             mod_scmi_clock_config_set_policy(state,
                 MOD_SCMI_CLOCK_PRE_MESSAGE_HANDLER, service_id,
                 payload.clock_id))

----------------------------------------------------------------------------
(* Describe rates                                                          *)

(* sizeof(struct scmi_clock_describe_rates_p2a): status, num_rates_flags   *)
DescribeRatesHeaderSize == 8
(* sizeof(struct scmi_clock_rate): low, high                               *)
RateEntrySize == 8

(* SCMI_CLOCK_RATES_MAX: the rate entries that fit in a payload after the  *)
(* fixed header                                                            *)
SCMI_CLOCK_RATES_MAX(max_payload_size) ==
    IF max_payload_size > DescribeRatesHeaderSize
    THEN (max_payload_size - DescribeRatesHeaderSize) \div RateEntrySize
    ELSE 0

SCMI_CLOCK_DESCRIBE_RATES_NUM_RATES_FLAGS(rate_count, format, remaining) ==
    [rate_count |-> rate_count, format |-> format, remaining |-> remaining]

FWK_MIN(a, b) == IF a < b THEN a ELSE b

(* The rate the clock HAL reports for an index of a discrete clock *)
HalRateAt(index) == <<index, 0, index, 0>>
(* The range the clock HAL reports for a clock with linear stepping *)
HalRange == [min |-> Zero64, max |-> Max64, step |-> <<1, 0, 0, 0>>]

ClockInfo(rate_type, rate_count) ==
    [rate_type |-> rate_type, rate_count |-> rate_count]

(* A write_payload call: offset and size in the payload, what it carries;  *)
(* for a rate entry, index is the rate index it was read from.             *)
Write(offset, size, kind, index, data) ==
    [offset |-> offset, size |-> size, kind |-> kind, index |-> index,
     data |-> data]

(* The rates returned in one payload: the smaller of what fits and what is *)
(* left from the index.                                                    *)
PageRateCountNoMin(per_payload, total, index) == per_payload
PageRateCount(per_payload, total, index) == FWK_MIN(per_payload, total - index)

(* The rates left after this payload *)
PageRemainingTotal(total, index, rate_count) == total - rate_count
PageRemaining(total, index, rate_count) == (total - index) - rate_count

(* Is the payload too small for the triplet of a linear clock? *)
RangeTooSmallNever(per_payload) == FALSE
RangeTooSmall(per_payload) == per_payload < 3

(* Is the starting index past the last rate? *)
RateIndexOutOfRangeOffByOne(index, total) == index > total
RateIndexOutOfRange(index, total) == index >= total

(* env: max_payload_size and info are what get_max_payload_size and        *)
(* get_info return; env.fail names the external call that fails, if any,   *)
(* env.fail_at which of its invocations does (write_payload invocations    *)
(* are counted over the rate and range entries, the header write being     *)
(* "write_header"), and env.fail_status the status it returns, which is    *)
(* the status the handler returns.                                         *)
scmi_clock_describe_rates_handler(service_id, payload, env) ==
    LET d == get_clock_device_entry(service_id, payload.clock_id)
        index == payload.rate_index
        info == env.info
        per_payload == SCMI_CLOCK_RATES_MAX(env.max_payload_size)
        rate_count == PageRateCount(per_payload, info.rate_count, index)
        remaining_rates == PageRemaining(info.rate_count, index, rate_count)
        RateWrite(i) ==
            Write(DescribeRatesHeaderSize + i * RateEntrySize, RateEntrySize,
                  "rate", index + i, RateToWords(HalRateAt(index + i)))
        RangeWrite ==
            Write(DescribeRatesHeaderSize, 3 * RateEntrySize, "range", 0,
                  <<RateToWords(HalRange.min), RateToWords(HalRange.max),
                    RateToWords(HalRange.step)>>)
        HeaderWrite(flags) ==
            Write(0, DescribeRatesHeaderSize, "header", 0, flags)
        Fail(ret, status, writes) ==
            Effect(ret, <<StatusOnly(service_id, status)>>, <<>>, writes,
                   NotCalled, clock_ops, queue, agent_clock_state, clock_count)
        (* the loop stops at the first get_rate_from_index or write_payload *)
        (* that fails                                                      *)
        stop == IF env.fail \in {"get_rate_from_index", "write_payload"}
                   /\ env.fail_at < rate_count
                THEN env.fail_at ELSE rate_count
        Done(flags, size, writes) ==
            Effect(IF env.fail = "write_header" THEN env.fail_status
                   ELSE FWK_SUCCESS,
                   <<Response(service_id, SCMI_SUCCESS, "describe_rates",
                              [num_rates_flags |-> flags,
                               payload_size |-> size])>>,
                   <<>>,
                   Append(writes, HeaderWrite(flags)),
                   NotCalled, clock_ops, queue, agent_clock_state, clock_count)
    IN
    IF d.status # FWK_SUCCESS
    THEN Fail(d.status, EntryFailureStatus(d.status), <<>>)
    ELSE IF env.fail = "get_max_payload_size"
    THEN Fail(env.fail_status, SCMI_GENERIC_ERROR, <<>>)
    ELSE IF env.fail = "get_info"
    THEN Fail(env.fail_status, SCMI_GENERIC_ERROR, <<>>)
    ELSE IF info.rate_type = MOD_CLOCK_RATE_TYPE_DISCRETE
    THEN IF RateIndexOutOfRange(index, info.rate_count)
         THEN Fail(FWK_SUCCESS, SCMI_OUT_OF_RANGE, <<>>)
         ELSE IF per_payload = 0
         THEN Fail(FWK_E_SIZE, SCMI_GENERIC_ERROR, <<>>)
         ELSE IF stop < rate_count
         THEN Fail(env.fail_status, SCMI_GENERIC_ERROR,
                   [i \in 1..(IF env.fail = "write_payload" THEN stop + 1
                              ELSE stop) |-> RateWrite(i - 1)])
         ELSE Done(SCMI_CLOCK_DESCRIBE_RATES_NUM_RATES_FLAGS(rate_count,
                       "LIST", remaining_rates),
                   DescribeRatesHeaderSize + rate_count * RateEntrySize,
                   [i \in 1..rate_count |-> RateWrite(i - 1)])
    ELSE IF RangeTooSmall(per_payload)
         THEN Fail(FWK_E_SIZE, SCMI_GENERIC_ERROR, <<>>)
         ELSE IF env.fail = "write_payload" /\ env.fail_at = 0
         THEN Fail(env.fail_status, SCMI_GENERIC_ERROR, <<RangeWrite>>)
         ELSE Done(SCMI_CLOCK_DESCRIBE_RATES_NUM_RATES_FLAGS(1, "RANGE", 0),
                   DescribeRatesHeaderSize + 3 * RateEntrySize,
                   <<RangeWrite>>)

----------------------------------------------------------------------------
(* Dispatcher                                                              *)

(* payload_size_table, indexed by message_id (from 0): the sizes of the    *)
(* request structures, in bytes                                            *)
payload_size_table == <<0, 0, 4, 4, 8, 16, 4, 8>>

(* scmi_clock_permissions_handler: env.perms is the answer of the resource *)
(* permissions module (agent_has_protocol_permission for the first three   *)
(* messages, agent_has_resource_permission for the others).                *)
scmi_clock_permissions_handler(service_id, payload, payload_size, message_id, env) ==
    IF env.perms = "MOD_RES_PERMS_ACCESS_ALLOWED" THEN FWK_SUCCESS
    ELSE FWK_E_ACCESS

(* The status of the dispatcher's error branch, "NONE" when the message is *)
(* handed to its handler.                                                  *)
DispatchErrorPermsFirst(service_id, payload, payload_size, message_id, env) ==
    IF UnknownMessage(message_id) THEN SCMI_NOT_FOUND
    ELSE IF scmi_clock_permissions_handler(service_id, payload, payload_size,
                                           message_id, env) # FWK_SUCCESS
    THEN SCMI_DENIED
    ELSE IF payload_size # payload_size_table[message_id + 1]
    THEN SCMI_PROTOCOL_ERROR
    ELSE "NONE"
DispatchError(service_id, payload, payload_size, message_id, env) ==
    IF UnknownMessage(message_id) THEN SCMI_NOT_FOUND
    ELSE IF payload_size # payload_size_table[message_id + 1]
    THEN SCMI_PROTOCOL_ERROR
    ELSE IF scmi_clock_permissions_handler(service_id, payload, payload_size,
                                           message_id, env) # FWK_SUCCESS
    THEN SCMI_DENIED
    ELSE "NONE"

(* handler_table[message_id](service_id, payload) *)
CallHandler(name, service_id, payload, env) ==
    CASE name = "PROTOCOL_VERSION" ->
            scmi_clock_protocol_version_handler(service_id, payload, env)
      [] name = "PROTOCOL_ATTRIBUTES" ->
            scmi_clock_protocol_attributes_handler(service_id, payload, env)
      [] name = "PROTOCOL_MESSAGE_ATTRIBUTES" ->
            scmi_clock_protocol_message_attributes_handler(service_id, payload,
                                                           env)
      [] name = "CLOCK_ATTRIBUTES" ->
            scmi_clock_attributes_handler(service_id, payload, env)
      [] name = "CLOCK_DESCRIBE_RATES" ->
            scmi_clock_describe_rates_handler(service_id, payload, env)
      [] name = "CLOCK_RATE_SET" ->
            scmi_clock_rate_set_handler(service_id, payload, env)
      [] name = "CLOCK_RATE_GET" ->
            scmi_clock_rate_get_handler(service_id, payload, env)
      [] name = "CLOCK_CONFIG_SET" ->
            scmi_clock_config_set_handler(service_id, payload, env)

(* The handler the dispatcher invokes, "NONE" on its error branch *)
HandlerInvoked(service_id, payload, payload_size, message_id, env) ==
    IF DispatchError(service_id, payload, payload_size, message_id, env)
           = "NONE"
    THEN handler_table[message_id + 1] ELSE "NONE"

scmi_clock_message_handler(service_id, payload, payload_size, message_id, env) ==
    LET err == DispatchError(service_id, payload, payload_size, message_id,
                             env)
    IN  IF err # "NONE"
        THEN Answer(FWK_SUCCESS, StatusOnly(service_id, err))
        ELSE CallHandler(handler_table[message_id + 1], service_id, payload,
                         env)

----------------------------------------------------------------------------
(* Event processing                                                        *)

HalCall(api, clock_dev_id, arg) ==
    [api |-> api, clock_dev_id |-> clock_dev_id, arg |-> arg]

EventEffect(ret, responses, hal_calls, hook_calls, order, ops, tab, cnt, pending) ==
    [ret |-> ret, resp |-> responses, hal |-> hal_calls, hooks |-> hook_calls,
     order |-> order, clock_ops |-> ops, agent_clock_state |-> tab,
     clock_count |-> cnt, hw_pending |-> pending]

(* clock_ops_update_state: does it invoke the config-set policy? *)
UpdatesStateAnyStatus(clock_dev_idx, status) ==
    clock_ops[clock_dev_idx].request = SCMI_CLOCK_REQUEST_SET_STATE
UpdatesState(clock_dev_idx, status) ==
    /\ status = FWK_SUCCESS
    /\ clock_ops[clock_dev_idx].request = SCMI_CLOCK_REQUEST_SET_STATE

(* clock_ops_update_state: the policy tables after the call, and the hook  *)
(* invocation it made, if any.                                             *)
clock_ops_update_state(clock_dev_idx, status) ==
    LET op == clock_ops[clock_dev_idx]
        pol == mod_scmi_clock_config_set_policy(op.state,
                   MOD_SCMI_CLOCK_POST_MESSAGE_HANDLER, op.service_id,
                   op.clock_dev_id)
    IN  IF UpdatesState(clock_dev_idx, status)
        THEN [agent_clock_state |-> pol.agent_clock_state,
              clock_count |-> pol.clock_count,
              hooks |-> <<HookCall("config_set",
                                   MOD_SCMI_CLOCK_POST_MESSAGE_HANDLER,
                                   op.service_id, op.clock_dev_id, op.state,
                                   pol)>>]
        ELSE [agent_clock_state |-> agent_clock_state,
              clock_count |-> clock_count, hooks |-> <<>>]

(* The status process_request_event is left with after a request that the  *)
(* HAL completed at once: the get requests keep the HAL's status, the set  *)
(* requests replace it by FWK_SUCCESS once they have responded.            *)
StatusAfterCompletionCleared(id, status) == FWK_SUCCESS
StatusAfterCompletion(id, status) ==
    IF id \in {SCMI_CLOCK_REQUEST_SET_RATE, SCMI_CLOCK_REQUEST_SET_STATE}
    THEN FWK_SUCCESS ELSE status

(* "Request completed": the HAL call did not return FWK_PENDING             *)
RequestCompletedAlways(status) == TRUE
RequestCompleted(status) == status # FWK_PENDING

(* process_request_event.  env.status is what the clock HAL call returns,  *)
(* env.state and env.rate what it stores on success.                       *)
process_request_event(event, env) ==
    LET clock_dev_idx == event.clock_dev_id
        service_id == clock_ops_get_service(clock_dev_idx)
        status == env.status
        completed == RequestCompleted(status)
        call == CASE event.id = SCMI_CLOCK_REQUEST_GET_STATE ->
                        HalCall("get_state", event.clock_dev_id, <<>>)
                  [] event.id = SCMI_CLOCK_REQUEST_GET_RATE ->
                        HalCall("get_rate", event.clock_dev_id, <<>>)
                  [] event.id = SCMI_CLOCK_REQUEST_SET_RATE ->
                        HalCall("set_rate", event.clock_dev_id,
                                <<RateFromEvent(event.rate), event.round_mode>>)
                  [] event.id = SCMI_CLOCK_REQUEST_SET_STATE ->
                        HalCall("set_state", event.clock_dev_id,
                                <<event.state>>)
        response ==
            CASE event.id = SCMI_CLOCK_REQUEST_GET_STATE ->
                    get_state_respond(event.clock_dev_id, service_id,
                                      env.state, status)
              [] event.id = SCMI_CLOCK_REQUEST_GET_RATE ->
                    get_rate_respond(service_id, env.rate, status)
              [] OTHER -> set_request_respond(service_id, status)
        upd == IF completed /\ event.id = SCMI_CLOCK_REQUEST_SET_STATE
               THEN clock_ops_update_state(clock_dev_idx, status)
               ELSE [agent_clock_state |-> agent_clock_state,
                     clock_count |-> clock_count, hooks |-> <<>>]
        final == StatusAfterCompletion(event.id, status)
    IN
    IF ~completed
    THEN EventEffect(FWK_SUCCESS, <<>>, <<call>>, <<>>, <<"hal">>, clock_ops,
                     agent_clock_state, clock_count,
                     [hw_pending EXCEPT ![clock_dev_idx] = event.id])
    ELSE EventEffect(final, <<response>>, <<call>>, upd.hooks,
                     <<"hal", "respond">>
                        \o (IF upd.hooks # <<>> THEN <<"hook">> ELSE <<>>)
                        \o (IF final = FWK_SUCCESS THEN <<"release">>
                            ELSE <<>>),
                     IF final = FWK_SUCCESS
                     THEN clock_ops_set_available(clock_ops, clock_dev_idx)
                     ELSE clock_ops,
                     upd.agent_clock_state, upd.clock_count, hw_pending)

(* process_response_event for a completion event of the clock HAL: its     *)
(* source is the clock, its id the request it completes, env.status,       *)
(* env.state and env.rate its parameters.                                  *)
process_response_event(source_id, id, env) ==
    LET clock_dev_idx == source_id
        service_id == clock_ops_get_service(clock_dev_idx)
        ok == env.status = FWK_SUCCESS
        response ==
            IF ~ok THEN request_response(env.status, service_id)
            ELSE CASE id = SCMI_CLOCK_REQUEST_GET_STATE ->
                        get_state_respond(source_id, service_id, env.state,
                                          FWK_SUCCESS)
                   [] id = SCMI_CLOCK_REQUEST_GET_RATE ->
                        get_rate_respond(service_id, env.rate, FWK_SUCCESS)
                   [] OTHER -> set_request_respond(service_id, FWK_SUCCESS)
        upd == IF ok /\ id \in {SCMI_CLOCK_REQUEST_SET_RATE,
                                SCMI_CLOCK_REQUEST_SET_STATE}
               THEN clock_ops_update_state(clock_dev_idx, FWK_SUCCESS)
               ELSE [agent_clock_state |-> agent_clock_state,
                     clock_count |-> clock_count, hooks |-> <<>>]
    IN  EventEffect(FWK_SUCCESS, <<response>>, <<>>, upd.hooks,
                    <<"respond">>
                       \o (IF upd.hooks # <<>> THEN <<"hook">> ELSE <<>>)
                       \o <<"release">>,
                    clock_ops_set_available(clock_ops, clock_dev_idx),
                    upd.agent_clock_state, upd.clock_count,
                    [hw_pending EXCEPT ![clock_dev_idx] = "NONE"])

----------------------------------------------------------------------------
(* Inputs                                                                  *)

Payload(message_id, clock_id, flags, rate, attributes, rate_index) ==
    [message_id |-> message_id, clock_id |-> clock_id, flags |-> flags,
     rate |-> rate, attributes |-> attributes, rate_index |-> rate_index]
NoPayload == Payload(0, 0, {}, <<Zero32, Zero32>>, {}, 0)

Env(perms, put_status, max_payload_size, info, fail, fail_at, fail_status) ==
    [perms |-> perms, put_status |-> put_status,
     max_payload_size |-> max_payload_size, info |-> info, fail |-> fail,
     fail_at |-> fail_at, fail_status |-> fail_status]

HalEnv(status, state, rate) == [status |-> status, state |-> state,
                                rate |-> rate]

Perms == {"MOD_RES_PERMS_ACCESS_ALLOWED", "MOD_RES_PERMS_ACCESS_DENIED"}
PutStatus == {FWK_SUCCESS, FWK_E_NOMEM}
PayloadSizes == {payload_size_table[i] : i \in 1..Len(payload_size_table)}
(* clock indices an agent may send: every index of a device table, and one *)
(* past the longest table                                                  *)
ClockIds == 0..clock_devices
MessageIds == 0..Len(handler_table)
RateSetFlags == SUBSET {"ASYNC", "ROUND_UP", "ROUND_AUTO", "BIT31"}
ConfigSetAttributes == SUBSET {"ENABLE", "BIT1"}
RateWords == {<<Zero32, Zero32>>, <<Max32, Max32>>}
HalStates == {MOD_CLOCK_STATE_RUNNING, MOD_CLOCK_STATE_STOPPED}
HalRates == {Zero64, Max64}

(* The largest discrete rate list, and the largest number of rate entries  *)
(* a payload has room for                                                  *)
MaxRates == 4
MaxPerPayload == 3

PayloadSizesFor(n) ==
    {DescribeRatesHeaderSize + k * RateEntrySize + j :
        k \in 0..n, j \in {0, RateEntrySize \div 2}}

----------------------------------------------------------------------------
(* State machine                                                           *)

Last(op, service_id, message_id, payload_size, payload, perms, handler, cer, ret, clock, id, status, order) ==
    [op |-> op, service_id |-> service_id, message_id |-> message_id,
     payload_size |-> payload_size, payload |-> payload, perms |-> perms,
     handler |-> handler, cer |-> cer, ret |-> ret, clock |-> clock,
     id |-> id, status |-> status, order |-> order]

NoLast == Last("init", FWK_ID_NONE, 0, 0, NoPayload,
               "MOD_RES_PERMS_ACCESS_ALLOWED", "NONE", NotCalled, FWK_SUCCESS,
               0, "NONE", FWK_SUCCESS, <<>>)

InitState ==
    /\ clock_ops = InitClockOps
    /\ agent_clock_state = NULL
    /\ clock_count = NULL
    /\ queue = <<>>
    /\ hw_pending = [c \in ClockDevIdx |-> "NONE"]
    /\ last = NoLast
    /\ resp = <<>>
    /\ hal = <<>>
    /\ hooks = <<>>
    /\ wrote = <<>>
    /\ acked = [c \in ClockDevIdx |-> {}]

InitModule == agent_table \in Configs /\ InitState

Init == InitModule /\ page = <<>>

(* What the agents have been told about their enables.  A ConfigSet that   *)
(* asks to disable withdraws the agent's enable of that clock as soon as   *)
(* it is issued; an enable counts once it is answered SCMI_SUCCESS, by the *)
(* event that completes it or by the handler while no request of the clock *)
(* is in flight (so that a stop dispatched later was requested later).     *)
AckedAfterMessage(service_id, payload, handler, responses) ==
    LET d == get_clock_device_entry(service_id, payload.clock_id) IN
    IF handler # "CLOCK_CONFIG_SET" \/ d.status # FWK_SUCCESS THEN acked
    ELSE IF ~HasBit(payload.attributes, SCMI_CLOCK_CONFIG_SET_ENABLE_MASK)
    THEN [acked EXCEPT ![d.element_idx] = @ \ {service_id}]
    ELSE IF /\ responses = <<StatusOnly(service_id, SCMI_SUCCESS)>>
            /\ clock_ops_is_available(d.element_idx)
    THEN [acked EXCEPT ![d.element_idx] = @ \cup {service_id}]
    ELSE acked

AckedAfterEvent(clock_dev_idx, responses) ==
    LET op == clock_ops[clock_dev_idx] IN
    IF /\ op.request = SCMI_CLOCK_REQUEST_SET_STATE
       /\ op.state = MOD_CLOCK_STATE_RUNNING
       /\ responses = <<StatusOnly(op.service_id, SCMI_SUCCESS)>>
    THEN [acked EXCEPT ![clock_dev_idx] = @ \cup {op.service_id}]
    ELSE acked

(* A message of an agent reaches scmi_clock_message_handler.               *)
MessageHandler(service_id, payload, payload_size, message_id, env) ==
    \E e \in {scmi_clock_message_handler(service_id, payload, payload_size,
                                        message_id, env)} :
        /\ clock_ops' = e.clock_ops
        /\ agent_clock_state' = e.agent_clock_state
        /\ clock_count' = e.clock_count
        /\ queue' = e.queue
        /\ resp' = e.resp
        /\ hooks' = e.hooks
        /\ wrote' = e.wrote
        /\ hal' = <<>>
        /\ last' = Last("message", service_id, message_id, payload_size,
                        payload, env.perms,
                        HandlerInvoked(service_id, payload, payload_size,
                                       message_id, env),
                        e.cer, e.ret, e.cer.clock_dev_idx, "NONE",
                        e.cer.status, <<>>)
        /\ UNCHANGED <<agent_table, hw_pending>>

Allowed == "MOD_RES_PERMS_ACCESS_ALLOWED"

QuietEnv(perms, put_status) ==
    Env(perms, put_status, DescribeRatesHeaderSize,
        ClockInfo(MOD_CLOCK_RATE_TYPE_DISCRETE, 0), "none", 0, FWK_SUCCESS)

ClockPayload(clock_id) == Payload(0, clock_id, {}, <<Zero32, Zero32>>, {}, 0)

(* The size of the request structure of a message *)
RightSize(message_id) == payload_size_table[message_id + 1]

(* Agents send well-formed, permitted requests for the four operations     *)
(* that go through the clock operations table.                             *)
ClockAttributes ==
    \E s \in Services, c \in ClockIds, put \in PutStatus :
        /\ MessageHandler(s, ClockPayload(c), RightSize(3), 3,
                          QuietEnv(Allowed, put))
        /\ UNCHANGED <<acked, page>>

ClockRateGet ==
    \E s \in Services, c \in ClockIds, put \in PutStatus :
        /\ MessageHandler(s, ClockPayload(c), RightSize(6), 6,
                          QuietEnv(Allowed, put))
        /\ UNCHANGED <<acked, page>>

ClockRateSet ==
    \E s \in Services, c \in ClockIds, put \in PutStatus,
       f \in {{}}, r \in {<<Max32, Max32>>} :
        /\ MessageHandler(s, Payload(0, c, f, r, {}, 0), RightSize(5), 5,
                          QuietEnv(Allowed, put))
        /\ UNCHANGED <<acked, page>>

ClockConfigSet ==
    \E s \in Services, c \in ClockIds, put \in PutStatus,
       a \in {{}, {"ENABLE"}} :
        /\ MessageHandler(s, Payload(0, c, {}, <<Zero32, Zero32>>, a, 0),
                          RightSize(7), 7, QuietEnv(Allowed, put))
        /\ UNCHANGED <<acked, page>>

(* The framework delivers the oldest request event to the module; the HAL  *)
(* call it makes returns status and, where it reads, stores st or rt.      *)
RequestEventOf(status, st, rt) ==
    /\ queue # <<>>
    /\ \E event \in {Head(queue)} :
        \E e \in {process_request_event(event, HalEnv(status, st, rt))} :
            /\ queue' = Tail(queue)
            /\ clock_ops' = e.clock_ops
            /\ agent_clock_state' = e.agent_clock_state
            /\ clock_count' = e.clock_count
            /\ hw_pending' = e.hw_pending
            /\ resp' = e.resp
            /\ hal' = e.hal
            /\ hooks' = e.hooks
            /\ wrote' = <<>>
            /\ last' = Last("request_event",
                            clock_ops_get_service(event.clock_dev_id), 0, 0,
                            NoPayload, "MOD_RES_PERMS_ACCESS_ALLOWED", "NONE",
                            NotCalled, e.ret, event.clock_dev_id, event.id,
                            status, e.order)
            /\ UNCHANGED agent_table

(* What the HAL stores is of interest only where the module reads it: on a *)
(* successful get_state or get_rate.                                       *)
RequestEvent ==
    /\ queue # <<>>
    /\ \E status \in HalCallStatus, st \in HalStates, rt \in HalRates :
        /\ (Head(queue).id # SCMI_CLOCK_REQUEST_GET_STATE
                \/ status # FWK_SUCCESS => st = MOD_CLOCK_STATE_STOPPED)
        /\ (Head(queue).id # SCMI_CLOCK_REQUEST_GET_RATE
                \/ status # FWK_SUCCESS => rt = Zero64)
        /\ RequestEventOf(status, st, rt)

(* The clock HAL completes an operation it had answered FWK_PENDING: its   *)
(* completion event reaches the module.                                    *)
ResponseEventOf(c, status, st, rt) ==
    \E id \in {hw_pending[c]} \ {"NONE"} :
        \E e \in {process_response_event(c, id, HalEnv(status, st, rt))} :
            /\ clock_ops' = e.clock_ops
            /\ agent_clock_state' = e.agent_clock_state
            /\ clock_count' = e.clock_count
            /\ hw_pending' = e.hw_pending
            /\ resp' = e.resp
            /\ hal' = e.hal
            /\ hooks' = e.hooks
            /\ wrote' = <<>>
            /\ last' = Last("response_event", clock_ops_get_service(c), 0, 0,
                            NoPayload, "MOD_RES_PERMS_ACCESS_ALLOWED", "NONE",
                            NotCalled, e.ret, c, id, status, e.order)
            /\ UNCHANGED <<agent_table, queue>>

ResponseEvent ==
    \E c \in ClockDevIdx, status \in HalEventStatus, st \in HalStates,
       rt \in HalRates :
        /\ (hw_pending[c] # SCMI_CLOCK_REQUEST_GET_STATE
                \/ status # FWK_SUCCESS => st = MOD_CLOCK_STATE_STOPPED)
        /\ (hw_pending[c] # SCMI_CLOCK_REQUEST_GET_RATE
                \/ status # FWK_SUCCESS => rt = Zero64)
        /\ ResponseEventOf(c, status, st, rt)

ProcessRequestEvent == RequestEvent /\ UNCHANGED <<acked, page>>

ProcessResponseEvent == ResponseEvent /\ UNCHANGED <<acked, page>>

Next ==
    \/ ClockAttributes
    \/ ClockRateGet
    \/ ClockRateSet
    \/ ClockConfigSet
    \/ ProcessRequestEvent
    \/ ProcessResponseEvent

Spec == Init /\ [][Next]_vars

----------------------------------------------------------------------------
(* The state-set policy, with what the agents have been told.  The agents  *)
(* send ConfigSet requests only, and acked follows their answers.          *)

PolicyConfigSet ==
    \E s \in Services, c \in ClockIds, put \in PutStatus,
       a \in {{}, {"ENABLE"}} :
        \E payload \in {Payload(0, c, {}, <<Zero32, Zero32>>, a, 0)} :
            /\ MessageHandler(s, payload, RightSize(7), 7,
                              QuietEnv(Allowed, put))
            /\ acked' = AckedAfterMessage(s, payload, last'.handler, resp')
            /\ UNCHANGED page

PolicyRequestEvent ==
    /\ RequestEvent
    /\ acked' = AckedAfterEvent(last'.clock, resp')
    /\ UNCHANGED page

PolicyResponseEvent ==
    /\ ResponseEvent
    /\ acked' = AckedAfterEvent(last'.clock, resp')
    /\ UNCHANGED page

NextPolicy ==
    \/ PolicyConfigSet
    \/ PolicyRequestEvent
    \/ PolicyResponseEvent

SpecPolicy == Init /\ [][NextPolicy]_vars

(* The same, also on the configurations in which two agents see a clock    *)
(* under different indices and in which a clock starts enabled for two     *)
(* agents.                                                                 *)
InitTables == agent_table \in PolicyConfigs /\ InitState /\ page = <<>>

SpecTables == InitTables /\ [][NextPolicy]_vars

----------------------------------------------------------------------------
(* An agent reads the rates of a clock: it sends ClockDescribeRates for a  *)
(* starting index and, while the answer reports rates remaining, again     *)
(* for the index advanced by the number of rates returned.  What the       *)
(* transport and the HAL answer is fixed for the session.                  *)

Session(service, clock_id, info, size, fail, fail_at, fail_status, start) ==
    [service |-> service, clock_id |-> clock_id, info |-> info,
     size |-> size, fail |-> fail, fail_at |-> fail_at,
     fail_status |-> fail_status, start |-> start,
     index |-> start, asked |-> start, count |-> 0, remaining |-> 0,
     got |-> <<>>, pages |-> 0, status |-> "NONE", done |-> FALSE]

ClockInfos ==
    {ClockInfo(MOD_CLOCK_RATE_TYPE_DISCRETE, n) : n \in 0..MaxRates}
        \cup {ClockInfo(MOD_CLOCK_RATE_TYPE_CONTINUOUS, 0)}

(* The statuses a failing external call returns *)
FailStatuses == {FWK_E_DEVICE, FWK_E_BUSY}

(* The call that fails, which of its invocations, and with what status *)
FailModes ==
    {<<"none", 0, FWK_SUCCESS>>}
        \cup {<<f, 0, st>> : f \in {"get_max_payload_size", "get_info",
                                     "write_header"},
                             st \in FailStatuses}
        \cup {<<f, k, st>> : f \in {"get_rate_from_index", "write_payload"},
                             k \in 0..1, st \in FailStatuses}

InitRates ==
    /\ InitModule
    /\ page \in {Session(s, c, info, size, f[1], f[2], f[3], start) :
                    s \in Services, c \in ClockIds, info \in ClockInfos,
                    size \in PayloadSizesFor(MaxPerPayload), f \in FailModes,
                    start \in 0..MaxRates}

(* The session after an answer: what the agent reads from the response and *)
(* from the rate entries written to the payload.                           *)
NextPage(pg, responses, writes) ==
    LET r == responses[1]
        flags == r.value.num_rates_flags
        entries == SelectSeq(writes, LAMBDA w : w.kind = "rate")
    IN  IF r.status = SCMI_SUCCESS /\ r.shape = "describe_rates"
        THEN [pg EXCEPT !.asked = pg.index,
                        !.index = @ + flags.rate_count,
                        !.count = flags.rate_count,
                        !.remaining = flags.remaining,
                        !.got = @ \o [i \in 1..Len(entries) |->
                                        entries[i].data],
                        !.pages = @ + 1,
                        !.status = r.status,
                        !.done = (flags.remaining = 0)]
        ELSE [pg EXCEPT !.asked = pg.index, !.count = 0, !.remaining = 0,
                        !.pages = @ + 1, !.status = r.status, !.done = TRUE]

ClockDescribeRates ==
    /\ ~page.done
    /\ page.pages <= MaxRates
    /\ MessageHandler(page.service,
                      Payload(0, page.clock_id, {}, <<Zero32, Zero32>>, {},
                              page.index),
                      RightSize(4), 4,
                      Env(Allowed, FWK_SUCCESS, page.size, page.info,
                          page.fail, page.fail_at, page.fail_status))
    /\ page' = NextPage(page, resp', wrote')
    /\ UNCHANGED acked

NextRates == ClockDescribeRates

SpecRates == InitRates /\ [][NextRates]_vars

----------------------------------------------------------------------------
(* A rate on its way through the module.  The agent sets a clock to the    *)
(* rate whose low and high words are page.lo and page.hi, or reads the     *)
(* rate of a clock that the HAL reports as that rate.                      *)

(* The 16-bit halves the words are drawn from *)
CodecLimbs == {0, 1, LimbBase - 1}
CodecWords == {<<a, b>> : a \in CodecLimbs, b \in CodecLimbs}

(* The 64-bit value whose low word is lo and whose high word is hi *)
RateOf(lo, hi) == <<lo[1], lo[2], hi[1], hi[2]>>

InitCodec ==
    /\ InitModule
    /\ page \in {[lo |-> lo, hi |-> hi] : lo \in CodecWords, hi \in CodecWords}

CodecRateSet ==
    \E s \in Services, c \in ClockIds :
        /\ MessageHandler(s, Payload(0, c, {}, <<page.lo, page.hi>>, {}, 0),
                          RightSize(5), 5, QuietEnv(Allowed, FWK_SUCCESS))
        /\ UNCHANGED <<acked, page>>

CodecRateGet ==
    \E s \in Services, c \in ClockIds :
        /\ MessageHandler(s, ClockPayload(c), RightSize(6), 6,
                          QuietEnv(Allowed, FWK_SUCCESS))
        /\ UNCHANGED <<acked, page>>

CodecRequestEvent ==
    /\ RequestEventOf(FWK_SUCCESS, MOD_CLOCK_STATE_STOPPED,
                      RateOf(page.lo, page.hi))
    /\ UNCHANGED <<acked, page>>

NextCodec ==
    \/ CodecRateSet
    \/ CodecRateGet
    \/ CodecRequestEvent

SpecCodec == InitCodec /\ [][NextCodec]_vars

----------------------------------------------------------------------------
(* A message as the transport may deliver it: any message identifier, any  *)
(* payload size, any answer of the permissions module, any flag word.  The *)
(* message is page; its agent sends it, and the events of the requests it  *)
(* queues are processed.                                                   *)

MessagePayloads(message_id) ==
    CASE message_id = 2 ->
            {Payload(m, 0, {}, <<Zero32, Zero32>>, {}, 0) : m \in MessageIds}
      [] message_id = 4 ->
            {Payload(0, c, {}, <<Zero32, Zero32>>, {}, i) :
                c \in ClockIds, i \in 0..1}
      [] message_id = 5 ->
            {Payload(0, c, f, <<Max32, Zero32>>, {}, 0) :
                c \in ClockIds, f \in RateSetFlags}
      [] message_id = 7 ->
            {Payload(0, c, {}, <<Zero32, Zero32>>, a, 0) :
                c \in ClockIds, a \in ConfigSetAttributes}
      [] OTHER -> {ClockPayload(c) : c \in ClockIds}

InitDispatch ==
    /\ InitModule
    /\ \E m \in MessageIds :
        page \in {[service_id |-> s, message_id |-> m, payload_size |-> n,
                   payload |-> pl, perms |-> pm, put_status |-> put] :
                    s \in Services, n \in PayloadSizes,
                    pl \in MessagePayloads(m), pm \in Perms,
                    put \in PutStatus}

Message ==
    /\ MessageHandler(page.service_id, page.payload, page.payload_size,
                      page.message_id, QuietEnv(page.perms, page.put_status))
    /\ UNCHANGED <<acked, page>>

NextDispatch ==
    \/ Message
    \/ ProcessRequestEvent
    \/ ProcessResponseEvent

SpecDispatch == InitDispatch /\ [][NextDispatch]_vars

----------------------------------------------------------------------------
(* Properties of the clock operations table                                *)

(* The request events of clock c waiting in the queue *)
QueuedFor(c) ==
    Cardinality({i \in DOMAIN queue : queue[i].clock_dev_id = c})

(* The claimed requests of clock c that are not yet answered: its queued   *)
(* request events and the operation the HAL has yet to complete.           *)
Outstanding(c) == QueuedFor(c) + (IF hw_pending[c] = "NONE" THEN 0 ELSE 1)

(* The step was a message whose handler reached create_event_request       *)
RequestedClaim == last.op = "message" /\ last.cer.called

(* C1: a clock never has more than one outstanding request, the slot of a  *)
(* clock with an outstanding request is owned, and a request that reaches  *)
(* create_event_request while the slot of its clock is owned is refused    *)
(* with FWK_E_BUSY, is answered SCMI_BUSY, and leaves the operations table *)
(* and the event queue as they were.                                       *)
C1_OneClaimPerClock ==
    [][ /\ \A c \in ClockDevIdx :
            /\ Outstanding(c)' <= 1
            /\ Outstanding(c)' = 1 => clock_ops'[c].service_id # FWK_ID_NONE
        /\ (RequestedClaim'
               /\ clock_ops[last'.cer.clock_dev_idx].service_id # FWK_ID_NONE)
            => /\ last'.cer.status = FWK_E_BUSY
               /\ resp' = <<StatusOnly(last'.service_id, SCMI_BUSY)>>
               /\ clock_ops' = clock_ops
               /\ queue' = queue ]_vars

(* C1 witness: an agent was refused on a clock whose slot another agent    *)
(* holds for a request still outstanding.                                  *)
C1_Witness ==
    /\ RequestedClaim
    /\ last.cer.status = FWK_E_BUSY
    /\ clock_ops[last.cer.clock_dev_idx].service_id
           \notin {FWK_ID_NONE, last.service_id}
    /\ Outstanding(last.cer.clock_dev_idx) = 1

(* The step was an event that answered the request holding a slot: a       *)
(* request event the HAL completed at once, or a completion event.         *)
AnsweredRequest ==
    last.op \in {"request_event", "response_event"} /\ resp # <<>>

(* C2: every terminal outcome of a claimed request releases its slot       *)
(* exactly once: the event that answers the request finds the slot of its  *)
(* clock owned and leaves it available, and a slot is owned only while a   *)
(* request of its clock is outstanding.                                    *)
C2_ReleasedOnEveryOutcome ==
    [][ /\ AnsweredRequest' =>
            /\ clock_ops[last'.clock].service_id # FWK_ID_NONE
            /\ clock_ops'[last'.clock].service_id = FWK_ID_NONE
        /\ \A c \in ClockDevIdx :
            clock_ops'[c].service_id # FWK_ID_NONE => Outstanding(c)' = 1
      ]_vars

(* A slot is owned although no request of its clock is outstanding: the    *)
(* request that claimed it has been answered.                              *)
C2_LeakedSlot ==
    /\ AnsweredRequest
    /\ clock_ops[last.clock].service_id # FWK_ID_NONE
    /\ Outstanding(last.clock) = 0

----------------------------------------------------------------------------
(* Properties of the default state-set policy                              *)

(* The reference count the policy keeps for the clock an agent sees under  *)
(* an index of its own is non-zero.                                        *)
CountedRunning(service_id, clock_dev_idx) ==
    /\ clock_count # NULL
    /\ \A i \in 0..(device_count(get_agent_id(service_id)) - 1) :
        device_table(get_agent_id(service_id), i).element_idx = clock_dev_idx
            => clock_count[i] # 0

(* The HAL was asked by the last step to stop clock c *)
StopDispatched(c) ==
    \E i \in DOMAIN hal :
        hal[i] = HalCall("set_state", c, <<MOD_CLOCK_STATE_STOPPED>>)

(* C3: while an agent holds an enable of a clock that was answered Success *)
(* and that it has not asked to withdraw, no step made for another agent   *)
(* asks the HAL to stop that clock or takes its reference count to zero.   *)
C3_SharedClockStaysRunning ==
    [][ \A c \in ClockDevIdx : \A s \in acked[c] \cap acked'[c] :
        last'.service_id # s =>
            /\ ~StopDispatched(c)'
            /\ CountedRunning(s, c) => CountedRunning(s, c)' ]_vars

(* C3, the scenario of the claim: both agents hold an acknowledged enable  *)
(* of the clock they share.                                                *)
C3_BothAcked == \E c \in ClockDevIdx : Cardinality(acked[c]) = 2

(* The state a ConfigSet payload asks for *)
RequestedState(payload) ==
    IF HasBit(payload.attributes, SCMI_CLOCK_CONFIG_SET_ENABLE_MASK)
    THEN MOD_CLOCK_STATE_RUNNING ELSE MOD_CLOCK_STATE_STOPPED

(* The step `step` was a ConfigSet of an agent for a clock of its own, the *)
(* policy tables existed before it, and they recorded for that agent and   *)
(* clock the state the request asks for.                                   *)
RepeatsCommitted(step, table) ==
    /\ step.op = "message"
    /\ step.handler = "CLOCK_CONFIG_SET"
    /\ table # NULL
    /\ get_clock_device_entry(step.service_id, step.payload.clock_id).status
           = FWK_SUCCESS
    /\ get_agent_clock_state(step.service_id, step.payload.clock_id,
                             table).state = RequestedState(step.payload)

(* C4: a ConfigSet that asks for the state the policy has recorded for the *)
(* agent and the clock is answered SCMI_SUCCESS by the handler, reaches    *)
(* neither create_event_request nor the HAL, and leaves the operations     *)
(* table, the queue, the reference counts and every agent's recorded       *)
(* state as they were.                                                     *)
C4_RepeatedConfigSetIsNoOp ==
    [][ RepeatsCommitted(last', agent_clock_state) =>
            /\ resp' = <<StatusOnly(last'.service_id, SCMI_SUCCESS)>>
            /\ last'.ret = FWK_SUCCESS
            /\ ~last'.cer.called
            /\ hal' = <<>>
            /\ clock_ops' = clock_ops
            /\ queue' = queue
            /\ hw_pending' = hw_pending
            /\ agent_clock_state' = agent_clock_state
            /\ clock_count' = clock_count ]_vars

(* C4 witness: an agent whose enable of the shared clock was carried out   *)
(* and committed repeated it and was answered Success at once.             *)
C4_Witness ==
    /\ agent_table = ConfigShared
    /\ RepeatsCommitted(last, agent_clock_state)
    /\ RequestedState(last.payload) = MOD_CLOCK_STATE_RUNNING
    /\ last.service_id \in acked[0]
    /\ resp = <<StatusOnly(last.service_id, SCMI_SUCCESS)>>
    /\ ~last.cer.called

----------------------------------------------------------------------------
(* Properties of ClockDescribeRates                                        *)

(* The rate entries one payload of the session has room for *)
PageCapacity == SCMI_CLOCK_RATES_MAX(page.size)

(* The session asks about a clock of the agent's device table *)
OwnClock ==
    get_clock_device_entry(page.service, page.clock_id).status = FWK_SUCCESS

(* A session over a discrete clock with at least one rate, started at      *)
(* index 0, with room for at least one entry per payload and no failing    *)
(* transport or HAL call.                                                  *)
DiscreteWalk ==
    /\ page.info.rate_type = MOD_CLOCK_RATE_TYPE_DISCRETE
    /\ page.info.rate_count >= 1
    /\ page.start = 0
    /\ page.fail = "none"
    /\ PageCapacity >= 1
    /\ OwnClock

(* C5: reading a discrete clock of N rates from index 0 with room for P    *)
(* entries per payload, every answer is a success that returns             *)
(* min(P, N - index) entries and reports (N - index) - count remaining;    *)
(* the entries received so far are the rates of the indices 0, 1, ... in   *)
(* order, each once; the session ends exactly when all N have been         *)
(* received, after at most N requests.                                     *)
C5_PaginationCoversEveryRate ==
    DiscreteWalk =>
        LET N == page.info.rate_count
            left == N - page.asked
        IN  /\ page.pages > 0 =>
                /\ page.status = SCMI_SUCCESS
                /\ page.count = (IF PageCapacity < left THEN PageCapacity
                                 ELSE left)
                /\ page.remaining = left - page.count
            /\ page.index <= N
            /\ page.got = [i \in 1..page.index |->
                              RateToWords(HalRateAt(i - 1))]
            /\ page.done <=> page.index = N
            /\ page.pages <= N

(* C5 witness: a session over the longest rate list ended after several    *)
(* payloads, the last of them partly filled, with every rate received.     *)
C5_Witness ==
    /\ DiscreteWalk
    /\ page.done
    /\ page.info.rate_count = MaxRates
    /\ Len(page.got) = MaxRates
    /\ page.pages >= 2
    /\ page.count < PageCapacity

(* C9: a ClockDescribeRates for a clock with linear stepping, when fewer   *)
(* than three rate entries fit in the payload, is answered with the        *)
(* status-only SCMI_GENERIC_ERROR and makes no write_payload call.         *)
C9_RangeNeedsThreeEntries ==
    (/\ last.op = "message"
     /\ page.info.rate_type = MOD_CLOCK_RATE_TYPE_CONTINUOUS
     /\ OwnClock
     /\ PageCapacity < 3)
        => /\ resp = <<StatusOnly(page.service, SCMI_GENERIC_ERROR)>>
           /\ wrote = <<>>
           /\ page.fail = "none" => last.ret = FWK_E_SIZE

(* C9 witness: room for two entries only, nothing else failing *)
C9_Witness ==
    /\ last.op = "message"
    /\ page.info.rate_type = MOD_CLOCK_RATE_TYPE_CONTINUOUS
    /\ OwnClock
    /\ PageCapacity = 2
    /\ page.fail = "none"
    /\ resp = <<StatusOnly(page.service, SCMI_GENERIC_ERROR)>>
    /\ wrote = <<>>

----------------------------------------------------------------------------
(* Properties of the rate conversions                                      *)

(* C6: the low and high words of a 64-bit rate recombine to that rate,     *)
(* with either of the two recombinations the module uses, and the rate     *)
(* splits back into those words; the rate handed to the set_rate call of   *)
(* the HAL is the rate whose words the agent sent, and the words answered  *)
(* to a rate-get are those of the rate the HAL reported.                   *)
C6_RateWordsRoundTrip ==
    LET rate == RateOf(page.lo, page.hi) IN
    /\ RateToWords(rate) = <<page.lo, page.hi>>
    /\ RateFromWords(<<page.lo, page.hi>>) = rate
    /\ RateFromEvent(<<page.lo, page.hi>>) = rate
    /\ RateFromWords(RateToWords(rate)) = rate
    /\ RateFromEvent(RateToWords(RateFromWords(RateToWords(rate)))) = rate
    /\ \A i \in DOMAIN queue :
            queue[i].id = SCMI_CLOCK_REQUEST_SET_RATE
                => queue[i].rate = <<page.lo, page.hi>>
    /\ \A i \in DOMAIN hal :
            hal[i].api = "set_rate" => hal[i].arg[1] = rate
    /\ \A i \in DOMAIN resp :
            resp[i].shape = "rate" => resp[i].value = <<page.lo, page.hi>>

(* C6 witness: the largest rate reached the set_rate call of the HAL *)
C6_Witness ==
    /\ page.lo = Max32
    /\ page.hi = Max32
    /\ last.op = "request_event"
    /\ \E i \in DOMAIN hal : hal[i].api = "set_rate" /\ hal[i].arg[1] = Max64

----------------------------------------------------------------------------
(* Properties of the dispatcher and of the handlers' validation            *)

(* The step `step` left the module as it was: nothing claimed, nothing     *)
(* queued, no policy hook run, no HAL call, no payload written.  (The      *)
(* variables are those before the step; the primed ones those after.)      *)
NothingDone(step) ==
    /\ ~step.cer.called
    /\ hooks' = <<>>
    /\ hal' = <<>>
    /\ wrote' = <<>>
    /\ clock_ops' = clock_ops
    /\ queue' = queue
    /\ hw_pending' = hw_pending
    /\ agent_clock_state' = agent_clock_state
    /\ clock_count' = clock_count

(* The step was the handling of a message by the named handler *)
HandledBy(step, handler) == step.op = "message" /\ step.handler = handler

(* The number of clocks in the device table of the agent of a service *)
DeviceCountOf(service_id) == device_count(get_agent_id(service_id))

(* The boundary of the clock index in ClockAttributes, with `status` the   *)
(* SCMI status answered past it.                                           *)
AttributesBoundary(status) ==
    HandledBy(last', "CLOCK_ATTRIBUTES") =>
        LET s == last'.service_id
            id == last'.payload.clock_id
        IN  /\ id >= DeviceCountOf(s) =>
                /\ resp' = <<StatusOnly(s, status)>>
                /\ NothingDone(last')
            /\ id = DeviceCountOf(s) - 1 =>
                /\ last'.cer.called
                /\ last'.cer.clock_dev_idx
                       = device_table(get_agent_id(s), id).element_idx
                /\ \A i \in DOMAIN resp' :
                       resp'[i].status \in {SCMI_BUSY, SCMI_GENERIC_ERROR}

(* C7 as stated: a ClockAttributes whose clock_id is at or past the        *)
(* agent's device_count is answered SCMI_OUT_OF_RANGE and does nothing;    *)
(* one for device_count - 1 reaches create_event_request for that clock.   *)
C7_AnsweredOutOfRange == [][AttributesBoundary(SCMI_OUT_OF_RANGE)]_vars

(* A ClockAttributes for exactly device_count was refused with the         *)
(* status-only SCMI_NOT_FOUND, the status of an unknown message.           *)
C7_AnsweredNotFound ==
    /\ HandledBy(last, "CLOCK_ATTRIBUTES")
    /\ last.payload.clock_id = DeviceCountOf(last.service_id)
    /\ resp = <<StatusOnly(last.service_id, SCMI_NOT_FOUND)>>
    /\ queue = <<>>

(* C8: a ClockRateSet whose flags have a bit outside the asynchronous,     *)
(* round-up and round-auto bits is answered SCMI_INVALID_PARAMETERS; the   *)
(* rate-set policy is not run, no slot is claimed, nothing is queued or    *)
(* dispatched.                                                             *)
C8_UnknownFlagRejected ==
    [][ (/\ HandledBy(last', "CLOCK_RATE_SET")
         /\ last'.payload.flags \ {"ASYNC", "ROUND_UP", "ROUND_AUTO"} # {})
        => /\ resp' = <<StatusOnly(last'.service_id,
                                   SCMI_INVALID_PARAMETERS)>>
           /\ NothingDone(last') ]_vars

(* C8 witness: bit 31 alone, on a clock of the agent with a free slot *)
C8_Witness ==
    /\ HandledBy(last, "CLOCK_RATE_SET")
    /\ last.payload.flags = {"BIT31"}
    /\ last.payload.clock_id < DeviceCountOf(last.service_id)
    /\ resp = <<StatusOnly(last.service_id, SCMI_INVALID_PARAMETERS)>>
    /\ \A c \in ClockDevIdx : clock_ops[c].service_id = FWK_ID_NONE

(* The SCMI status the dispatcher must answer to a message it refuses,     *)
(* "NONE" for one it must hand on: the identifier is checked first, then   *)
(* the size, then the permission.                                          *)
Refusal(step) ==
    IF step.message_id >= Len(handler_table) THEN SCMI_NOT_FOUND
    ELSE IF step.payload_size # payload_size_table[step.message_id + 1]
    THEN SCMI_PROTOCOL_ERROR
    ELSE IF step.perms # "MOD_RES_PERMS_ACCESS_ALLOWED" THEN SCMI_DENIED
    ELSE "NONE"

(* C10: a message with an identifier outside the handler table is answered *)
(* SCMI_NOT_FOUND; otherwise one whose size is not the size of its request *)
(* structure is answered SCMI_PROTOCOL_ERROR; otherwise one the            *)
(* permissions handler refuses is answered SCMI_DENIED.  Each time the     *)
(* answer is a single status-only response, the dispatcher returns         *)
(* FWK_SUCCESS and no handler has run.                                     *)
C10_DispatcherOrder ==
    [][ (last'.op = "message" /\ Refusal(last') # "NONE") =>
            /\ resp' = <<StatusOnly(last'.service_id, Refusal(last'))>>
            /\ last'.ret = FWK_SUCCESS
            /\ last'.handler = "NONE"
            /\ NothingDone(last') ]_vars

(* C10 witness: a message of the wrong size that the permissions module    *)
(* would also refuse is answered for its size.                             *)
C10_Witness ==
    /\ last.op = "message"
    /\ last.message_id < Len(handler_table)
    /\ last.payload_size # payload_size_table[last.message_id + 1]
    /\ last.perms = "MOD_RES_PERMS_ACCESS_DENIED"
    /\ resp = <<StatusOnly(last.service_id, SCMI_PROTOCOL_ERROR)>>

----------------------------------------------------------------------------
(* Responses to requests.  The framework delivers every event put on the   *)
(* queue, and the clock HAL completes every operation it has answered      *)
(* FWK_PENDING.                                                            *)

(* The payload of a message for clock_id: a ConfigSet asks to enable or to *)
(* disable, a RateSet carries no flags.                                    *)
LivePayloads(message_id, clock_id) ==
    IF UnknownMessage(message_id) \/ handler_table[message_id + 1]
                                        # "CLOCK_CONFIG_SET"
    THEN {ClockPayload(clock_id)}
    ELSE {Payload(0, clock_id, {}, <<Zero32, Zero32>>, a, 0) :
            a \in {{}, SCMI_CLOCK_CONFIG_SET_ENABLE_MASK}}

(* The agents and clocks of the configurations with two agents on one      *)
(* clock and with one agent on two clocks.                                 *)
InitLive == Init /\ agent_table \in {ConfigShared, ConfigPair}

(* A read through the operations table (ClockAttributes), a write with a   *)
(* policy (ClockConfigSet), a message answered by its handler              *)
(* (ClockDescribeRates) and an identifier past the handler table.          *)
LiveMessageIds == {3, 4, 7, Len(handler_table)}

(* An agent sends one of these messages, of the right size, for any clock  *)
(* index.                                                                  *)
LiveMessage ==
    \E s \in Services, m \in LiveMessageIds, c \in ClockIds :
        \E payload \in LivePayloads(m, c) :
            /\ MessageHandler(s, payload,
                   IF UnknownMessage(m) THEN 0 ELSE RightSize(m), m,
                   Env(Allowed, FWK_SUCCESS,
                       DescribeRatesHeaderSize + RateEntrySize,
                       ClockInfo(MOD_CLOCK_RATE_TYPE_DISCRETE, 1), "none", 0,
                       FWK_SUCCESS))
            /\ UNCHANGED <<acked, page>>

(* What the clock HAL answers: done, later, or failed.                     *)
LiveCallStatus == {FWK_SUCCESS, FWK_PENDING, FWK_E_DEVICE}
LiveEventStatus == {FWK_SUCCESS, FWK_E_DEVICE}

(* The framework delivers the oldest request event.                        *)
LiveRequestEvent ==
    /\ \E status \in LiveCallStatus :
        RequestEventOf(status, MOD_CLOCK_STATE_STOPPED, Zero64)
    /\ UNCHANGED <<acked, page>>

(* The completion event of the operation pending on clock c is delivered.  *)
CompletionOf(c) ==
    /\ \E status \in LiveEventStatus :
        ResponseEventOf(c, status, MOD_CLOCK_STATE_STOPPED, Zero64)
    /\ UNCHANGED <<acked, page>>

LiveResponseEvent == \E c \in ClockDevIdx : CompletionOf(c)

NextLive ==
    \/ LiveMessage
    \/ LiveRequestEvent
    \/ LiveResponseEvent

Fairness ==
    /\ WF_vars(LiveRequestEvent)
    /\ \A c \in ClockDevIdx : WF_vars(CompletionOf(c))

SpecLive == InitLive /\ [][NextLive]_vars /\ Fairness

(* The agent whose request holds the slot of clock c *)
Owner(c) == clock_ops[c].service_id

(* The responses are exactly one response, sent to service_id *)
OneResponseTo(responses, service_id) ==
    Len(responses) = 1 /\ responses[1].service_id = service_id

(* What a step answers.  A message is answered by the dispatcher or the    *)
(* handler, once, unless its request was queued; then the slot is the      *)
(* requester's and nothing is answered yet.  A request event answers the   *)
(* owner of the slot once unless the HAL returned FWK_PENDING; then the    *)
(* operation stays outstanding for the same owner.  A completion event     *)
(* answers the owner once.  The answer ends the request.                   *)
AnswersOnce ==
    \A c \in ClockDevIdx :
        /\ (last'.op = "message" /\ c = last'.clock) =>
            IF last'.cer.called /\ last'.cer.status = FWK_SUCCESS
            THEN /\ resp' = <<>>
                 /\ Outstanding(c) = 0
                 /\ Outstanding(c)' = 1
                 /\ Owner(c)' = last'.service_id
            ELSE /\ OneResponseTo(resp', last'.service_id)
                 /\ queue' = queue
                 /\ hw_pending' = hw_pending
        /\ (last'.op = "request_event" /\ c = last'.clock) =>
            /\ Outstanding(c) = 1
            /\ IF last'.status = FWK_PENDING
               THEN /\ resp' = <<>>
                    /\ Outstanding(c)' = 1
               ELSE /\ OneResponseTo(resp', Owner(c))
                    /\ Outstanding(c)' = 0
        /\ (last'.op = "response_event" /\ c = last'.clock) =>
            /\ Outstanding(c) = 1
            /\ OneResponseTo(resp', Owner(c))
            /\ Outstanding(c)' = 0
        /\ Outstanding(c) = 1 /\ Outstanding(c)' = 1 => Owner(c)' = Owner(c)
        /\ c # last'.clock => Outstanding(c)' = Outstanding(c)

(* C11: every request delivered to the dispatcher is answered exactly      *)
(* once: by the dispatcher or handler in the step that receives it, or, if *)
(* it was queued, by the request event or else by the completion event of  *)
(* its clock, to the agent that sent it; and no queued request stays       *)
(* unanswered for ever (a clock has at most one, so each clock is again    *)
(* and again without one).                                                 *)
C11_ExactlyOneResponse ==
    /\ [][AnswersOnce]_vars
    /\ \A c \in ClockDevIdx : []<>(Outstanding(c) = 0)

(* C11 witness: a request the HAL had answered FWK_PENDING was answered by *)
(* its completion event while a request of the other clock is outstanding. *)
C11_Witness ==
    /\ last.op = "response_event"
    /\ OneResponseTo(resp, last.service_id)
    /\ Outstanding(last.clock) = 0
    /\ \E c \in ClockDevIdx : Outstanding(c) = 1

----------------------------------------------------------------------------
(* Requests on a busy clock                                                *)

(* The agent states and reference counts of the state-set policy: what the *)
(* tables hold or, before their allocation, what they are seeded with.     *)
CommittedStates ==
    IF agent_clock_state = NULL THEN SeededAgentClockState
    ELSE agent_clock_state
ReferenceCounts ==
    IF agent_clock_state = NULL THEN SeededClockCount ELSE clock_count

TrackedHandlers ==
    {"CLOCK_ATTRIBUTES", "CLOCK_RATE_GET", "CLOCK_RATE_SET",
     "CLOCK_CONFIG_SET"}

(* C12: a ClockAttributes, RateGet, RateSet or ConfigSet that reaches       *)
(* create_event_request (its clock exists and its policy did not skip it)  *)
(* while the slot of its clock is owned is answered the status-only        *)
(* SCMI_BUSY at once; nothing is queued, no HAL call is made, the handler  *)
(* returns FWK_SUCCESS, and the operations table, the agent states and the *)
(* reference counts are as before.                                         *)
C12_BusyChangesNothing ==
    [][ (/\ RequestedClaim'
         /\ last'.handler \in TrackedHandlers
         /\ Owner(last'.cer.clock_dev_idx) # FWK_ID_NONE)
        => /\ resp' = <<StatusOnly(last'.service_id, SCMI_BUSY)>>
           /\ last'.ret = FWK_SUCCESS
           /\ queue' = queue
           /\ hal' = <<>>
           /\ hw_pending' = hw_pending
           /\ clock_ops' = clock_ops
           /\ CommittedStates' = CommittedStates
           /\ ReferenceCounts' = ReferenceCounts ]_vars

(* C12 witness: a ConfigSet that the policy let through was refused on a   *)
(* clock another request holds, the policy tables already allocated.       *)
C12_Witness ==
    /\ RequestedClaim
    /\ last.handler = "CLOCK_CONFIG_SET"
    /\ last.cer.status = FWK_E_BUSY
    /\ resp = <<StatusOnly(last.service_id, SCMI_BUSY)>>
    /\ Outstanding(last.cer.clock_dev_idx) = 1
    /\ clock_ops[last.cer.clock_dev_idx].request # SCMI_CLOCK_REQUEST_SET_STATE
    /\ agent_clock_state # NULL

----------------------------------------------------------------------------
(* Requests on different clocks                                            *)

(* The clock whose slot the step was about: the clock of the event, or the *)
(* clock of the message if its handler reached create_event_request.       *)
ActsOn(step, c) ==
    /\ step.clock = c
    /\ step.op = "message" => step.cer.called

(* C13: a step changes at most the slot of the clock it is about (a claim, *)
(* a refusal and a release leave every other slot as it was), and a        *)
(* request that reaches create_event_request for a clock whose slot is     *)
(* free is not refused as busy, whatever the other slots hold.             *)
C13_ClocksAreIndependent ==
    [][ \A c \in ClockDevIdx :
        /\ ~ActsOn(last', c) => clock_ops'[c] = clock_ops[c]
        /\ (RequestedClaim' /\ last'.clock = c /\ Owner(c) = FWK_ID_NONE)
            => /\ last'.cer.status # FWK_E_BUSY
               /\ resp' # <<StatusOnly(last'.service_id, SCMI_BUSY)>>
               /\ last'.cer.status = FWK_SUCCESS
                    => /\ Owner(c)' = last'.service_id
                       /\ Outstanding(c)' = 1 ]_vars

(* C13 witness: a request was accepted on one clock while the request of   *)
(* another clock is outstanding, so that both are in flight.               *)
C13_Witness ==
    /\ RequestedClaim
    /\ last.cer.status = FWK_SUCCESS
    /\ \E c \in ClockDevIdx :
        /\ c # last.clock
        /\ Outstanding(c) = 1
        /\ Outstanding(last.clock) = 1
        /\ Owner(c) # FWK_ID_NONE
        /\ Owner(last.clock) # FWK_ID_NONE

----------------------------------------------------------------------------
(* Operations the HAL has yet to complete                                  *)

(* The step was the completion event of clock c *)
CompletedBy(step, c) == step.op = "response_event" /\ step.clock = c

(* C14: from the moment the HAL has answered FWK_PENDING for an operation  *)
(* of clock c, the slot of c is owned, and every step other than the       *)
(* completion event of c leaves its owner and the pending operation as     *)
(* they are; a request that reaches create_event_request for c in the      *)
(* meantime is answered SCMI_BUSY and queues nothing.  There is no step    *)
(* that gives the operation up.                                            *)
C14_PendingHoldsTheSlot ==
    [][ \A c \in ClockDevIdx :
        /\ (last'.op = "request_event" /\ last'.clock = c
                /\ last'.status = FWK_PENDING)
            => /\ hw_pending'[c] = last'.id
               /\ Owner(c)' = Owner(c)
               /\ Owner(c)' # FWK_ID_NONE
        /\ (hw_pending[c] # "NONE" /\ ~CompletedBy(last', c))
            => /\ Owner(c) # FWK_ID_NONE
               /\ Owner(c)' = Owner(c)
               /\ hw_pending'[c] = hw_pending[c]
               /\ (RequestedClaim' /\ last'.clock = c)
                    => /\ resp' = <<StatusOnly(last'.service_id, SCMI_BUSY)>>
                       /\ queue' = queue
        /\ (hw_pending[c] # "NONE" /\ CompletedBy(last', c))
            => /\ Owner(c)' = FWK_ID_NONE
               /\ hw_pending'[c] = "NONE" ]_vars

(* C14 witness: while a get_state the HAL answered FWK_PENDING is still to *)
(* complete, a RateSet for that clock was refused and the slot is still    *)
(* owned.                                                                  *)
C14_Witness ==
    /\ RequestedClaim
    /\ last.handler = "CLOCK_RATE_SET"
    /\ resp = <<StatusOnly(last.service_id, SCMI_BUSY)>>
    /\ hw_pending[last.clock] = SCMI_CLOCK_REQUEST_GET_STATE
    /\ Owner(last.clock) # FWK_ID_NONE
    /\ queue = <<>>

----------------------------------------------------------------------------
(* Bookkeeping of the default state-set policy                             *)

(* The step completed a set-state request with the given HAL status: the   *)
(* request event whose HAL call did not return FWK_PENDING, or the         *)
(* completion event.                                                       *)
SetStateCompleted(step) ==
    /\ step.op \in {"request_event", "response_event"}
    /\ step.id = SCMI_CLOCK_REQUEST_SET_STATE
    /\ step.status # FWK_PENDING

(* C15: the agent states and the reference counts change only in the step  *)
(* that completes a set-state request with FWK_SUCCESS.  In particular a   *)
(* ConfigSet message (the pre-message invocation of the policy) changes    *)
(* neither, and a set-state that fails, at the HAL call or in its          *)
(* completion event, leaves both as they were.                             *)
C15_CommittedOnlyOnCompletion ==
    [][ /\ last'.op = "message"
            => /\ CommittedStates' = CommittedStates
               /\ ReferenceCounts' = ReferenceCounts
        /\ (SetStateCompleted(last') /\ last'.status # FWK_SUCCESS)
            => /\ CommittedStates' = CommittedStates
               /\ ReferenceCounts' = ReferenceCounts
               /\ hooks' = <<>>
        /\ (CommittedStates' # CommittedStates
                \/ ReferenceCounts' # ReferenceCounts)
            => /\ SetStateCompleted(last')
               /\ last'.status = FWK_SUCCESS ]_vars

(* C15 witness: the completion event of a set-state carried a failure; the *)
(* tables exist and no agent is recorded as RUNNING on a clock that the    *)
(* pre-message invocation let through to be enabled.                       *)
C15_Witness ==
    /\ last.op = "response_event"
    /\ SetStateCompleted(last)
    /\ last.status = FWK_E_DEVICE
    /\ agent_table = ConfigShared
    /\ agent_clock_state # NULL
    /\ \A i \in DOMAIN agent_clock_state :
        agent_clock_state[i] = MOD_CLOCK_STATE_STOPPED
    /\ resp = <<StatusOnly(last.service_id, SCMI_GENERIC_ERROR)>>

----------------------------------------------------------------------------
(* Reference counting of the default state-set policy                      *)

(* The agents other than service_id whose committed state, in table, for   *)
(* an index under which they see clock c is RUNNING.                       *)
OtherHolders(table, service_id, c) ==
    {a \in Services \ {service_id} :
        \E i \in 0..(device_count(a) - 1) :
            /\ device_table(a, i).element_idx = c
            /\ table[AgentClockIdx(a, i)] = MOD_CLOCK_STATE_RUNNING}

(* The step was a ConfigSet that queued a set-state request for state      *)
QueuedSetState(step, state) ==
    /\ step.op = "message"
    /\ step.handler = "CLOCK_CONFIG_SET"
    /\ step.cer.called
    /\ step.cer.status = FWK_SUCCESS
    /\ RequestedState(step.payload) = state

(* The reference count the policy reads for a ConfigSet: the entry at the  *)
(* clock index of the request.                                             *)
CountRead(counts, step) == counts[step.payload.clock_id]

(* C16: a set-state(STOPPED) is queued only by a request that finds the    *)
(* reference count at 1, a set-state(RUNNING) only by a request that finds *)
(* it at 0, and the HAL is never asked to stop a clock while an agent      *)
(* other than the requester has RUNNING as its committed state for that    *)
(* clock.                                                                  *)
C16_StopOnlyByLastHolder ==
    [][ /\ QueuedSetState(last', MOD_CLOCK_STATE_STOPPED)
            => CountRead(ReferenceCounts, last') = 1
        /\ QueuedSetState(last', MOD_CLOCK_STATE_RUNNING)
            => CountRead(ReferenceCounts, last') = 0
        /\ \A c \in ClockDevIdx :
            StopDispatched(c)'
                => OtherHolders(CommittedStates, Owner(c), c) = {} ]_vars

(* The HAL was asked to stop a clock for one agent while another agent has *)
(* RUNNING as its committed state for that clock.                          *)
C16_StoppedUnderHolder ==
    /\ last.op = "request_event"
    /\ StopDispatched(last.clock)
    /\ OtherHolders(CommittedStates, last.service_id, last.clock) # {}

(* The agents whose committed state, in table, for an index under which    *)
(* they see clock c is RUNNING.                                            *)
Holders(table, c) == OtherHolders(table, FWK_ID_NONE, c)

(* The step was a ConfigSet for which the handler invoked the policy: the  *)
(* clock index is one of the agent's and no undefined attribute bit is set *)
PolicyInvoked(step) ==
    /\ step.op = "message"
    /\ step.handler = "CLOCK_CONFIG_SET"
    /\ get_clock_device_entry(step.service_id, step.payload.clock_id).status
           = FWK_SUCCESS
    /\ ~HasBitsOutside(step.payload.attributes,
                       SCMI_CLOCK_CONFIG_SET_ENABLE_MASK)

(* The clock an agent's index stands for *)
PhysicalClock(service_id, clock_id) ==
    get_clock_device_entry(service_id, clock_id).element_idx

(* C17: the slot a request claims or is refused on is the slot of the      *)
(* physical clock its index stands for, and the reference count the policy *)
(* reads for a ConfigSet is the count of that physical clock: the number   *)
(* of agents, under whatever index each sees the clock, whose committed    *)
(* state for it is RUNNING.                                                *)
C17_KeyedByPhysicalClock ==
    [][ /\ RequestedClaim'
            => last'.cer.clock_dev_idx
                   = PhysicalClock(last'.service_id, last'.payload.clock_id)
        /\ PolicyInvoked(last')
            => CountRead(ReferenceCounts, last')
                   = Cardinality(Holders(CommittedStates,
                         PhysicalClock(last'.service_id,
                                       last'.payload.clock_id))) ]_vars

(* Two agents have RUNNING as their committed state for one physical       *)
(* clock, and no reference count is 2: each was counted in the entry of    *)
(* its own index.                                                          *)
C17_CountedApart ==
    /\ agent_clock_state # NULL
    /\ \E c \in ClockDevIdx : Cardinality(Holders(agent_clock_state, c)) = 2
    /\ \A k \in ClockDevIdx : clock_count[k] < 2

(* The committed state, in table, of the agent and clock index of a        *)
(* ConfigSet step                                                          *)
CommittedFor(table, step) ==
    table[AgentClockIdx(get_agent_id(step.service_id), step.payload.clock_id)]

(* The step completed with FWK_SUCCESS the set-state request that holds    *)
(* the slot of clock c, asking for state                                   *)
CommitsSetState(step, c, state) ==
    /\ SetStateCompleted(step)
    /\ step.status = FWK_SUCCESS
    /\ step.clock = c
    /\ clock_ops[c].state = state

(* C18: a ConfigSet(enable) of an agent whose committed state for the      *)
(* clock is not RUNNING is let through by the policy to                    *)
(* create_event_request, whatever the reference count, and the successful  *)
(* completion of an enable adds one to the reference count and sets the    *)
(* agent's committed state to RUNNING.                                     *)
C18_EnableIsDispatchedAndCounted ==
    [][ /\ (/\ PolicyInvoked(last')
            /\ RequestedState(last'.payload) = MOD_CLOCK_STATE_RUNNING
            /\ CommittedFor(CommittedStates, last')
                   # MOD_CLOCK_STATE_RUNNING)
            => /\ last'.cer.called
               /\ resp' # <<StatusOnly(last'.service_id, SCMI_SUCCESS)>>
        /\ \A c \in ClockDevIdx :
            CommitsSetState(last', c, MOD_CLOCK_STATE_RUNNING)
            => LET i == clock_ops[c].clock_dev_id
                   a == get_agent_id(clock_ops[c].service_id)
               IN  /\ ReferenceCounts'[i] = ReferenceCounts[i] + 1
                   /\ CommittedStates'[AgentClockIdx(a, i)]
                          = MOD_CLOCK_STATE_RUNNING ]_vars

(* An agent whose committed state was STOPPED asked to enable a clock      *)
(* whose reference count is 1 and was answered Success at once: nothing    *)
(* was dispatched, the count is still 1 and its state still STOPPED.       *)
C18_EnableSkipped ==
    /\ PolicyInvoked(last)
    /\ RequestedState(last.payload) = MOD_CLOCK_STATE_RUNNING
    /\ agent_clock_state # NULL
    /\ CommittedFor(agent_clock_state, last) = MOD_CLOCK_STATE_STOPPED
    /\ CountRead(clock_count, last) = 1
    /\ ~last.cer.called
    /\ queue = <<>>
    /\ resp = <<StatusOnly(last.service_id, SCMI_SUCCESS)>>

(* The step was a ConfigSet(disable) the handler answered with Success     *)
(* without queuing a request, from an agent whose committed state in       *)
(* table for the clock index is RUNNING.                                   *)
DisableAnsweredAtOnce(table, step) ==
    /\ PolicyInvoked(step)
    /\ RequestedState(step.payload) = MOD_CLOCK_STATE_STOPPED
    /\ CommittedFor(table, step) = MOD_CLOCK_STATE_RUNNING
    /\ ~step.cer.called

(* C19: a ConfigSet(disable) answered with Success to an agent whose       *)
(* committed state for the clock is RUNNING, on a clock whose reference    *)
(* count is n >= 1, leaves the count at n - 1 and the agent's committed    *)
(* state STOPPED, whether the Success is returned by the handler itself or *)
(* by the completion of the request it queued.                             *)
C19_DisableIsCounted ==
    [][ /\ (/\ DisableAnsweredAtOnce(CommittedStates, last')
            /\ CountRead(ReferenceCounts, last') >= 1
            /\ resp' = <<StatusOnly(last'.service_id, SCMI_SUCCESS)>>)
            => /\ CountRead(ReferenceCounts', last')
                   = CountRead(ReferenceCounts, last') - 1
               /\ CommittedFor(CommittedStates', last')
                   = MOD_CLOCK_STATE_STOPPED
        /\ \A c \in ClockDevIdx :
            CommitsSetState(last', c, MOD_CLOCK_STATE_STOPPED)
            => LET i == clock_ops[c].clock_dev_id
                   a == get_agent_id(clock_ops[c].service_id)
               IN  /\ ReferenceCounts'[i] = ReferenceCounts[i] - 1
                   /\ CommittedStates'[AgentClockIdx(a, i)]
                          = MOD_CLOCK_STATE_STOPPED ]_vars

(* A ConfigSet(disable) was answered with Success while the reference      *)
(* count of its clock index is still 2 and the requester's committed state *)
(* is still RUNNING.                                                       *)
C19_DisableNotCounted ==
    /\ agent_clock_state # NULL
    /\ DisableAnsweredAtOnce(agent_clock_state, last)
    /\ CountRead(clock_count, last) = 2
    /\ queue = <<>>
    /\ resp = <<StatusOnly(last.service_id, SCMI_SUCCESS)>>

----------------------------------------------------------------------------
(* Agreement of the two tables of the default state-set policy             *)

(* The agents that have a device for clock c with starts_enabled set *)
StartsEnabled(c) ==
    {a \in Services :
        \E i \in 0..(device_count(a) - 1) :
            /\ device_table(a, i).element_idx = c
            /\ device_table(a, i).starts_enabled}

(* The step that allocates the tables leaves them as seeded: the committed *)
(* state an agent has for a clock of its device table is RUNNING if that   *)
(* device starts enabled and STOPPED if not, and the count of each clock   *)
(* is the number of agents for which it starts enabled.                    *)
SeedsTables ==
    (agent_clock_state = NULL /\ agent_clock_state' # NULL)
    => /\ \A a \in Services : \A i \in 0..(device_count(a) - 1) :
            agent_clock_state'[AgentClockIdx(a, i)]
                = IF device_table(a, i).starts_enabled
                  THEN MOD_CLOCK_STATE_RUNNING
                  ELSE MOD_CLOCK_STATE_STOPPED
       /\ \A c \in ClockDevIdx :
            clock_count'[c] = Cardinality(StartsEnabled(c))

(* C20: once the tables of the policy exist, the reference count of each   *)
(* clock is the number of agents whose committed state for that clock,     *)
(* under whatever index each sees it, is RUNNING; and the step that first  *)
(* allocates the tables seeds them so that each agent:clock pair whose     *)
(* device has starts_enabled is RUNNING and counted once for its clock,    *)
(* and every other pair is STOPPED.                                        *)
C20_CountIsNumberOfRunning ==
    /\ [](agent_clock_state # NULL
            => \A c \in ClockDevIdx :
                clock_count[c]
                    = Cardinality(Holders(agent_clock_state, c)))
    /\ [][SeedsTables]_vars

(* An agent enabled a clock, the enable was committed, and the count of    *)
(* that clock is 0 while the agent holds it RUNNING: the enable was        *)
(* counted in the entry of the agent's index, which is another clock's.    *)
C20_HeldUncounted ==
    /\ agent_clock_state # NULL
    /\ SetStateCompleted(last)
    /\ last.status = FWK_SUCCESS
    /\ StartsEnabled(last.clock) = {}
    /\ clock_count[last.clock] = 0
    /\ \E a \in Services : \E i \in 0..(device_count(a) - 1) :
          /\ device_table(a, i).element_idx = last.clock
          /\ i # last.clock
          /\ agent_clock_state[AgentClockIdx(a, i)] = MOD_CLOCK_STATE_RUNNING
          /\ clock_count[i] = 1

----------------------------------------------------------------------------
(* Platform policies.  The two policies are weak symbols: a platform may   *)
(* link its own.  The platform policies considered here wrap the default   *)
(* ones: in pre-message mode they either return what the default policy    *)
(* returns or veto the request, by a failure status or by the skip policy  *)
(* status, without a call of the default policy; in post-message mode they *)
(* are the default policies.                                               *)

PolicyReturn(status, policy_status) ==
    [status |-> status, policy_status |-> policy_status]

Vetoes ==
    {PolicyReturn(FWK_E_STATE, MOD_SCMI_CLOCK_SKIP_MESSAGE_HANDLER),
     PolicyReturn(FWK_E_PARAM, MOD_SCMI_CLOCK_SKIP_MESSAGE_HANDLER),
     PolicyReturn(FWK_E_PARAM, MOD_SCMI_CLOCK_EXECUTE_MESSAGE_HANDLER),
     PolicyReturn(FWK_SUCCESS, MOD_SCMI_CLOCK_SKIP_MESSAGE_HANDLER)}

platform_rate_set_policy(round_mode, rate, policy_commit, service_id, clock_dev_id) ==
    {mod_scmi_clock_rate_set_policy(round_mode, rate, policy_commit,
                                    service_id, clock_dev_id)}
    \cup {[status |-> v.status, policy_status |-> v.policy_status,
           round_mode |-> round_mode, rate |-> rate] : v \in Vetoes}

platform_config_set_policy(state, policy_commit, service_id, clock_dev_id) ==
    {mod_scmi_clock_config_set_policy(state, policy_commit, service_id,
                                      clock_dev_id)}
    \cup {[status |-> v.status, policy_status |-> v.policy_status,
           agent_clock_state |-> agent_clock_state,
           clock_count |-> clock_count] : v \in Vetoes}

(* A handler invoked by the dispatcher has the effect e. *)
HandlerEffect(e, service_id, payload, message_id) ==
    /\ clock_ops' = e.clock_ops
    /\ agent_clock_state' = e.agent_clock_state
    /\ clock_count' = e.clock_count
    /\ queue' = e.queue
    /\ resp' = e.resp
    /\ hooks' = e.hooks
    /\ wrote' = e.wrote
    /\ hal' = <<>>
    /\ last' = Last("message", service_id, message_id, RightSize(message_id),
                    payload, Allowed, handler_table[message_id + 1],
                    e.cer, e.ret, e.cer.clock_dev_idx, "NONE", e.cer.status,
                    <<>>)
    /\ UNCHANGED <<agent_table, hw_pending, acked, page>>

(* A synchronous RateSet for a clock of the agent, under a platform policy *)
HookedRateSet ==
    \E s \in Services, c \in ClockDevIdx, put \in {FWK_SUCCESS} :
        \E payload \in {Payload(0, c, {}, <<Max32, Max32>>, {}, 0)},
           d \in {get_clock_device_entry(s, c)} :
            /\ d.status = FWK_SUCCESS
            /\ \E pol \in platform_rate_set_policy(
                              RoundModeOf(payload.flags),
                              RateFromWords(payload.rate),
                              MOD_SCMI_CLOCK_PRE_MESSAGE_HANDLER, s, c) :
                HandlerEffect(
                    rate_set_after_policy(s, payload, QuietEnv(Allowed, put),
                                          d.element_idx, pol),
                    s, payload, 5)

(* A ConfigSet for a clock of the agent, under a platform policy *)
HookedConfigSet ==
    \E s \in Services, c \in ClockDevIdx, put \in PutStatus,
       a \in {{}, {"ENABLE"}} :
        \E payload \in {Payload(0, c, {}, <<Zero32, Zero32>>, a, 0)},
           d \in {get_clock_device_entry(s, c)} :
            /\ d.status = FWK_SUCCESS
            /\ \E pol \in platform_config_set_policy(
                              ConfigSetState(a),
                              MOD_SCMI_CLOCK_PRE_MESSAGE_HANDLER, s, c) :
                HandlerEffect(
                    config_set_after_policy(s, payload,
                        QuietEnv(Allowed, put), d.element_idx,
                        ConfigSetState(a), pol),
                    s, payload, 7)

NextHooks ==
    \/ HookedRateSet
    \/ HookedConfigSet
    \/ LiveRequestEvent
    \/ LiveResponseEvent

InitHooks ==
    /\ agent_table \in {ConfigShared, ConfigPair, ConfigBoth}
    /\ InitState
    /\ page = <<>>

SpecHooks == InitHooks /\ [][NextHooks]_vars

----------------------------------------------------------------------------
(* Failure of the state-set policy in pre-message mode                     *)

(* The invocations of the policy hook, in mode policy_commit, that calls   *)
(* records                                                                 *)
Invocations(calls, hook, policy_commit) ==
    {i \in DOMAIN calls :
        /\ calls[i].hook = hook
        /\ calls[i].policy_commit = policy_commit}

(* The handler's pre-message call of the policy hook returned a failure *)
PreMessageFailure(step, calls, hook) ==
    /\ step.op = "message"
    /\ \E i \in Invocations(calls, hook, MOD_SCMI_CLOCK_PRE_MESSAGE_HANDLER) :
        calls[i].status # FWK_SUCCESS

(* The default policy, from tables in which the agent's committed state    *)
(* for the index is RUNNING and the reference count of the index is 0,     *)
(* fails a STOPPED request with FWK_E_STATE; it fails a state that is      *)
(* neither RUNNING nor STOPPED with FWK_E_PARAM; both leave the tables as  *)
(* they were.                                                              *)
DefaultPolicyFailures ==
    \A service_id \in Services :
        \A k \in 0..(device_count(get_agent_id(service_id)) - 1) :
            LET idx == AgentClockIdx(get_agent_id(service_id), k)
                tab == [CommittedStates EXCEPT
                            ![idx] = MOD_CLOCK_STATE_RUNNING]
                cnt == [ReferenceCounts EXCEPT ![k] = 0]
                stop == config_set_policy_switch(tab, cnt,
                            MOD_CLOCK_STATE_STOPPED,
                            MOD_SCMI_CLOCK_PRE_MESSAGE_HANDLER, service_id, k)
                bad == config_set_policy_switch(CommittedStates,
                            ReferenceCounts, MOD_CLOCK_STATE_COUNT,
                            MOD_SCMI_CLOCK_PRE_MESSAGE_HANDLER, service_id, k)
            IN  /\ stop.status = FWK_E_STATE
                /\ stop.agent_clock_state = tab
                /\ stop.clock_count = cnt
                /\ bad.status = FWK_E_PARAM
                /\ bad.agent_clock_state = CommittedStates
                /\ bad.clock_count = ReferenceCounts

(* C21: when the state-set policy returns a failure in pre-message mode    *)
(* the agent is answered the status-only SCMI_GENERIC_ERROR, the           *)
(* operations table and the event queue are as before, no HAL call is      *)
(* made, and the agent states and reference counts are unchanged; the      *)
(* default policy returns such a failure for a STOPPED request of an agent *)
(* recorded RUNNING on an index whose count is 0 and for a state that is   *)
(* neither RUNNING nor STOPPED.                                            *)
C21_PolicyFailureIsGenericError ==
    /\ [][ PreMessageFailure(last', hooks', "config_set")
            => /\ resp' = <<StatusOnly(last'.service_id, SCMI_GENERIC_ERROR)>>
               /\ ~last'.cer.called
               /\ clock_ops' = clock_ops
               /\ queue' = queue
               /\ hal' = <<>>
               /\ CommittedStates' = CommittedStates
               /\ ReferenceCounts' = ReferenceCounts ]_vars
    /\ []DefaultPolicyFailures

(* C21 witness: a ConfigSet whose pre-message policy call returned         *)
(* FWK_E_STATE was answered SCMI_GENERIC_ERROR while a request of another  *)
(* clock is in the queue.                                                  *)
C21_Witness ==
    /\ PreMessageFailure(last, hooks, "config_set")
    /\ hooks[1].status = FWK_E_STATE
    /\ resp = <<StatusOnly(last.service_id, SCMI_GENERIC_ERROR)>>
    /\ queue # <<>>

----------------------------------------------------------------------------
(* Invocations of the policies around a dispatched request                 *)

(* The policy of a request kind *)
HookOf(request) ==
    IF request = SCMI_CLOCK_REQUEST_SET_RATE THEN "rate_set" ELSE "config_set"

(* The step was a RateSet or ConfigSet that queued its request *)
Dispatched(step) ==
    /\ step.op = "message"
    /\ step.handler \in {"CLOCK_RATE_SET", "CLOCK_CONFIG_SET"}
    /\ step.cer.called
    /\ step.cer.status = FWK_SUCCESS

(* The step completed a set-rate or set-state request, with whatever       *)
(* status: the request event whose HAL call did not return FWK_PENDING, or *)
(* the completion event.                                                   *)
SetRequestCompleted(step) ==
    /\ step.op \in {"request_event", "response_event"}
    /\ step.id \in {SCMI_CLOCK_REQUEST_SET_RATE, SCMI_CLOCK_REQUEST_SET_STATE}
    /\ step.status # FWK_PENDING

(* C22: a RateSet or ConfigSet that is dispatched invokes its policy once  *)
(* in pre-message mode, in the step that claims the slot, and once in      *)
(* post-message mode, in the step that completes the operation, whether    *)
(* that is the request event or the completion event and whatever the      *)
(* status of the HAL; no other step invokes it.                            *)
C22_PolicyInvokedTwice ==
    [][ /\ Dispatched(last')
            => /\ Len(hooks') = 1
               /\ Cardinality(Invocations(hooks',
                      HookOf(clock_ops'[last'.clock].request),
                      MOD_SCMI_CLOCK_PRE_MESSAGE_HANDLER)) = 1
        /\ SetRequestCompleted(last')
            => /\ Len(hooks') = 1
               /\ Cardinality(Invocations(hooks', HookOf(last'.id),
                      MOD_SCMI_CLOCK_POST_MESSAGE_HANDLER)) = 1
        /\ (last'.op \in {"request_event", "response_event"}
                /\ ~SetRequestCompleted(last'))
            => hooks' = <<>> ]_vars

(* A set-rate request was completed with FWK_SUCCESS and answered, and no  *)
(* policy was invoked.                                                     *)
C22_CompletedWithoutPolicy ==
    /\ SetRequestCompleted(last)
    /\ last.id = SCMI_CLOCK_REQUEST_SET_RATE
    /\ last.status = FWK_SUCCESS
    /\ resp = <<StatusOnly(last.service_id, SCMI_SUCCESS)>>
    /\ hooks = <<>>

----------------------------------------------------------------------------
(* Release of the slot by the completion event                             *)

(* C23: after process_response_event has processed the completion event   *)
(* of clock c, for a get-state, get-rate, set-rate or set-state operation  *)
(* and with whatever status the event carries, the slot of c is available  *)
(* and nothing is pending on c.                                            *)
C23_CompletionReleasesTheSlot ==
    [][ \A c \in ClockDevIdx :
        (/\ CompletedBy(last', c)
         /\ last'.id \in RequestTypes
         /\ last'.status \in HalEventStatus)
        => /\ clock_ops'[c].service_id = FWK_ID_NONE
           /\ "release" \in {last'.order[i] : i \in DOMAIN last'.order}
           /\ hw_pending'[c] = "NONE"
           /\ \A d \in ClockDevIdx \ {c} : clock_ops'[d] = clock_ops[d] ]_vars

(* C23 witness: the completion event of a set-rate carried a failure, the  *)
(* agent was answered SCMI_GENERIC_ERROR and the slot of the clock is      *)
(* available.                                                              *)
C23_Witness ==
    /\ last.op = "response_event"
    /\ last.id = SCMI_CLOCK_REQUEST_SET_RATE
    /\ last.status = FWK_E_DEVICE
    /\ resp = <<StatusOnly(last.service_id, SCMI_GENERIC_ERROR)>>
    /\ clock_ops[last.clock].service_id = FWK_ID_NONE

----------------------------------------------------------------------------
(* Addressee and shape of the response to a completed operation            *)

(* The request kind each handler records in the slot it claims *)
RequestOf(handler) ==
    CASE handler = "CLOCK_ATTRIBUTES" -> SCMI_CLOCK_REQUEST_GET_STATE
      [] handler = "CLOCK_RATE_GET" -> SCMI_CLOCK_REQUEST_GET_RATE
      [] handler = "CLOCK_RATE_SET" -> SCMI_CLOCK_REQUEST_SET_RATE
      [] handler = "CLOCK_CONFIG_SET" -> SCMI_CLOCK_REQUEST_SET_STATE

(* The structure a successful response of a request kind is sized for *)
ShapeOf(request) ==
    CASE request = SCMI_CLOCK_REQUEST_GET_STATE -> "clock_attributes"
      [] request = SCMI_CLOCK_REQUEST_GET_RATE -> "rate"
      [] OTHER -> "status"

(* The step completed the operation of clock c: the request event whose    *)
(* HAL call did not return FWK_PENDING, or the completion event.           *)
Completes(step, c) ==
    /\ step.op \in {"request_event", "response_event"}
    /\ step.clock = c
    /\ step.status # FWK_PENDING

(* C24: the slot a request claims records the requesting service and the   *)
(* request kind; both stay as recorded until the operation completes; and  *)
(* the one response of the completion, in the request event or in the      *)
(* completion event, goes to the recorded service, with the shape of the   *)
(* recorded request kind on success and status-only otherwise.             *)
C24_ResponseGoesToTheOwner ==
    [][ \A c \in ClockDevIdx :
        /\ (RequestedClaim' /\ last'.clock = c
                /\ last'.cer.status = FWK_SUCCESS)
            => /\ clock_ops'[c].service_id = last'.service_id
               /\ clock_ops'[c].request = RequestOf(last'.handler)
        /\ (clock_ops[c].service_id # FWK_ID_NONE /\ ~Completes(last', c))
            => /\ clock_ops'[c].service_id = clock_ops[c].service_id
               /\ clock_ops'[c].request = clock_ops[c].request
        /\ Completes(last', c)
            => /\ clock_ops[c].service_id # FWK_ID_NONE
               /\ clock_ops[c].request = last'.id
               /\ Len(resp') = 1
               /\ resp'[1].service_id = clock_ops[c].service_id
               /\ resp'[1].shape
                    = IF last'.status = FWK_SUCCESS
                      THEN ShapeOf(clock_ops[c].request)
                      ELSE "status" ]_vars

(* C24 witness: with two agents on one clock, the completion event of a    *)
(* get-rate of the second agent was answered to that agent, with the rate. *)
C24_Witness ==
    /\ agent_table = ConfigShared
    /\ last.op = "response_event"
    /\ last.id = SCMI_CLOCK_REQUEST_GET_RATE
    /\ last.status = FWK_SUCCESS
    /\ last.service_id = 1
    /\ resp = <<Response(1, SCMI_SUCCESS, "rate", RateToWords(Zero64))>>

----------------------------------------------------------------------------
(* Completion in the request event and in the completion event             *)

(* The status and the shape of a response *)
Outcome(response) == <<response.status, response.shape>>

(* What the agent is told when the HAL returns status from the call made   *)
(* for event, and when the completion event of the same request carries    *)
(* status                                                                  *)
AnsweredAtOnce(event, status) ==
    Outcome(process_request_event(event,
                HalEnv(status, MOD_CLOCK_STATE_STOPPED, Zero64)).resp[1])
AnsweredLater(event, status) ==
    Outcome(process_response_event(event.clock_dev_id, event.id,
                HalEnv(status, MOD_CLOCK_STATE_STOPPED, Zero64)).resp[1])

(* C25: for each request kind and each status of the HAL, success or       *)
(* error, the status and the shape of the response are the same whether    *)
(* the HAL returns the status from the call or delivers it in the          *)
(* completion event.                                                       *)
C25_SameAnswerEitherWay ==
    queue # <<>>
    => \A status \in HalEventStatus :
        AnsweredAtOnce(Head(queue), status) = AnsweredLater(Head(queue), status)

(* A set-rate that the HAL refused with FWK_E_PARAM from the call was      *)
(* answered SCMI_INVALID_PARAMETERS; the same status in a completion event *)
(* is answered SCMI_GENERIC_ERROR.                                         *)
C25_AnsweredDifferently ==
    /\ last.op = "request_event"
    /\ last.id = SCMI_CLOCK_REQUEST_SET_RATE
    /\ last.status = FWK_E_PARAM
    /\ resp = <<StatusOnly(last.service_id, SCMI_INVALID_PARAMETERS)>>
    /\ request_response(FWK_E_PARAM, last.service_id)
           = StatusOnly(last.service_id, SCMI_GENERIC_ERROR)

----------------------------------------------------------------------------
(* Order of the calls that complete a set-state                            *)

(* call a is made before call b in the sequence of calls order *)
Before(order, a, b) ==
    \E i, j \in DOMAIN order : i < j /\ order[i] = a /\ order[j] = b

(* C26: in the step that completes a set-state operation with FWK_SUCCESS  *)
(* the post-message invocation of the policy comes first, then the         *)
(* response to the agent, then the release of the slot: the Success        *)
(* response is not sent before the tables hold the committed state, and    *)
(* the slot is not released before the response is sent.                   *)
C26_CommitRespondRelease ==
    [][ (SetStateCompleted(last') /\ last'.status = FWK_SUCCESS)
        => /\ Before(last'.order, "hook", "respond")
           /\ Before(last'.order, "respond", "release")
           /\ ~Before(last'.order, "respond", "hook") ]_vars

(* The completion event of an enable was answered SCMI_SUCCESS, and the    *)
(* response was sent before the policy was invoked to commit the state.    *)
C26_RespondedBeforeCommit ==
    /\ last.op = "response_event"
    /\ SetStateCompleted(last)
    /\ last.status = FWK_SUCCESS
    /\ resp = <<StatusOnly(last.service_id, SCMI_SUCCESS)>>
    /\ hooks # <<>>
    /\ last.order = <<"respond", "hook", "release">>

----------------------------------------------------------------------------
(* A policy that skips the message handler                                 *)

(* The handler's pre-message call of a policy returned FWK_SUCCESS with    *)
(* the skip policy status                                                  *)
PreMessageSkip(step, calls) ==
    /\ step.op = "message"
    /\ step.handler \in {"CLOCK_RATE_SET", "CLOCK_CONFIG_SET"}
    /\ Len(calls) = 1
    /\ calls[1].policy_commit = MOD_SCMI_CLOCK_PRE_MESSAGE_HANDLER
    /\ calls[1].status = FWK_SUCCESS
    /\ calls[1].policy_status = MOD_SCMI_CLOCK_SKIP_MESSAGE_HANDLER

(* Every post-message invocation is made in the step that completes the    *)
(* set-state request of an owned slot, for the service and the clock index *)
(* that slot records.                                                      *)
PostMessageOnlyForTheSlot(step, calls) ==
    \A i \in DOMAIN calls :
        calls[i].policy_commit = MOD_SCMI_CLOCK_POST_MESSAGE_HANDLER
        => /\ SetStateCompleted(step)
           /\ calls[i].hook = "config_set"
           /\ calls[i].service_id = clock_ops[step.clock].service_id
           /\ calls[i].clock_dev_id = clock_ops[step.clock].clock_dev_id
           /\ clock_ops[step.clock].service_id # FWK_ID_NONE

(* C27: when the pre-message call of a policy returns the skip policy      *)
(* status, the RateSet or ConfigSet handler answers the status-only        *)
(* SCMI_SUCCESS at once: create_event_request is not called, the           *)
(* operations table and the event queue are as before and no HAL call is   *)
(* made; and a post-message invocation is only ever made for a request     *)
(* that holds a slot, so none follows for the skipped request.             *)
C27_SkipIsAnImmediateSuccess ==
    [][ /\ PreMessageSkip(last', hooks')
            => /\ resp' = <<StatusOnly(last'.service_id, SCMI_SUCCESS)>>
               /\ last'.ret = FWK_SUCCESS
               /\ ~last'.cer.called
               /\ clock_ops' = clock_ops
               /\ queue' = queue
               /\ hw_pending' = hw_pending
               /\ hal' = <<>>
        /\ PostMessageOnlyForTheSlot(last', hooks') ]_vars

(* C27 witness: a RateSet that the platform's rate-set policy skipped was  *)
(* answered SCMI_SUCCESS while the request of another clock is queued; the *)
(* slot of its own clock is free.                                          *)
C27_Witness ==
    /\ PreMessageSkip(last, hooks)
    /\ last.handler = "CLOCK_RATE_SET"
    /\ resp = <<StatusOnly(last.service_id, SCMI_SUCCESS)>>
    /\ clock_ops[PhysicalClock(last.service_id, last.payload.clock_id)]
           .service_id = FWK_ID_NONE
    /\ Len(queue) = 1
    /\ Head(queue).clock_dev_id
           # PhysicalClock(last.service_id, last.payload.clock_id)

----------------------------------------------------------------------------
(* Rejected requests.  Agents send RateSet and ConfigSet messages, well    *)
(* formed or not, and messages with an unknown identifier, while earlier   *)
(* requests are in flight.                                                 *)

MixedMessageIds == {5, 7, Len(handler_table)}

(* The size of the request structure of the message, or one word less *)
MixedSizes(message_id) ==
    IF message_id < Len(handler_table)
    THEN {RightSize(message_id), RightSize(message_id) - 4}
    ELSE {4}

MixedPayloads(message_id) ==
    CASE message_id = 5 ->
            {Payload(0, c, f, <<Max32, Zero32>>, {}, 0) :
                c \in ClockIds, f \in {{}, {"ASYNC"}, {"BIT31"}}}
      [] message_id = 7 ->
            {Payload(0, c, {}, <<Zero32, Zero32>>, a, 0) :
                c \in ClockIds, a \in {{}, {"ENABLE"}, {"ENABLE", "BIT1"}}}
      [] OTHER -> {ClockPayload(0)}

MixedMessage ==
    \E s \in Services, m \in MixedMessageIds, pm \in Perms :
        \E n \in MixedSizes(m), pl \in MixedPayloads(m) :
            /\ MessageHandler(s, pl, n, m, QuietEnv(pm, FWK_SUCCESS))
            /\ UNCHANGED <<acked, page>>

NextMixed ==
    \/ MixedMessage
    \/ LiveRequestEvent
    \/ LiveResponseEvent

SpecMixed == Init /\ [][NextMixed]_vars

(* The message is one the module rejects: its identifier is unknown, its   *)
(* size is not that of its request structure, the permissions handler      *)
(* denies it, its clock index is not one of the agent's, or a flag or      *)
(* attribute bit outside the defined ones is set.                          *)
Rejected(step) ==
    /\ step.op = "message"
    /\ \/ step.message_id >= Len(handler_table)
       \/ step.payload_size # payload_size_table[step.message_id + 1]
       \/ step.perms # Allowed
       \/ step.payload.clock_id >= DeviceCountOf(step.service_id)
       \/ /\ step.message_id = 5
          /\ step.payload.flags
                \ {"ASYNC", "ROUND_UP", "ROUND_AUTO"} # {}
       \/ /\ step.message_id = 7
          /\ step.payload.attributes \ {"ENABLE"} # {}

RejectionStatuses ==
    {SCMI_NOT_FOUND, SCMI_PROTOCOL_ERROR, SCMI_DENIED,
     SCMI_INVALID_PARAMETERS, SCMI_OUT_OF_RANGE}

(* C28: a request rejected as malformed (unknown identifier, wrong size),  *)
(* as denied, or for a clock index out of range or an undefined flag or    *)
(* attribute bit is answered a status-only error and leaves every slot of  *)
(* the operations table, every agent's committed state and every reference *)
(* count as it was; nothing is queued and no policy or HAL call is made.   *)
C28_RejectionChangesNothing ==
    [][ Rejected(last')
        => /\ Len(resp') = 1
           /\ resp'[1].shape = "status"
           /\ resp'[1].status \in RejectionStatuses
           /\ clock_ops' = clock_ops
           /\ agent_clock_state' = agent_clock_state
           /\ clock_count' = clock_count
           /\ queue' = queue
           /\ hw_pending' = hw_pending
           /\ hooks' = <<>>
           /\ hal' = <<>> ]_vars

(* C28 witness: a ConfigSet with an undefined attribute bit was rejected   *)
(* while the slot of its clock is owned and the policy tables hold a       *)
(* committed enable.                                                       *)
C28_Witness ==
    /\ agent_table = ConfigShared
    /\ Rejected(last)
    /\ last.message_id = 7
    /\ last.payload_size = RightSize(7)
    /\ last.perms = Allowed
    /\ last.payload.clock_id < DeviceCountOf(last.service_id)
    /\ resp = <<StatusOnly(last.service_id, SCMI_INVALID_PARAMETERS)>>
    /\ clock_ops[PhysicalClock(last.service_id, last.payload.clock_id)]
           .service_id # FWK_ID_NONE
    /\ agent_clock_state # NULL
    /\ \E k \in ClockDevIdx : clock_count[k] = 1

----------------------------------------------------------------------------
(* Asynchronous rate set                                                   *)

(* The step handled a RateSet with the asynchronous flag, no undefined     *)
(* flag and a clock index of the agent                                     *)
AsyncRateSet(step) ==
    /\ HandledBy(step, "CLOCK_RATE_SET")
    /\ "ASYNC" \in step.payload.flags
    /\ step.payload.flags \subseteq {"ASYNC", "ROUND_UP", "ROUND_AUTO"}
    /\ step.payload.clock_id < DeviceCountOf(step.service_id)

(* C29: a RateSet with the asynchronous flag set, no undefined flag bit    *)
(* and a valid clock index is answered the status-only SCMI_NOT_SUPPORTED; *)
(* the rate-set policy is not invoked, create_event_request is not called, *)
(* the operations table and the queue are as before and no HAL call is     *)
(* made.                                                                   *)
C29_AsyncRateSetNotSupported ==
    [][ AsyncRateSet(last')
        => /\ resp' = <<StatusOnly(last'.service_id, SCMI_NOT_SUPPORTED)>>
           /\ last'.ret = FWK_SUCCESS
           /\ hooks' = <<>>
           /\ ~last'.cer.called
           /\ clock_ops' = clock_ops
           /\ queue' = queue
           /\ hal' = <<>> ]_vars

(* C29 witness: an asynchronous RateSet was answered SCMI_NOT_SUPPORTED    *)
(* although the slot of its clock is free, after earlier requests have     *)
(* been served.                                                            *)
C29_Witness ==
    /\ AsyncRateSet(last)
    /\ resp = <<StatusOnly(last.service_id, SCMI_NOT_SUPPORTED)>>
    /\ clock_ops[PhysicalClock(last.service_id, last.payload.clock_id)]
           .service_id = FWK_ID_NONE
    /\ agent_clock_state # NULL
    /\ queue = <<>>

----------------------------------------------------------------------------
(* Starting index and payload room of ClockDescribeRates                   *)

(* The step handled a ClockDescribeRates of the session for a discrete     *)
(* clock of the agent, with get_max_payload_size and get_info succeeding   *)
DiscreteRequest(step) ==
    /\ HandledBy(step, "CLOCK_DESCRIBE_RATES")
    /\ OwnClock
    /\ page.info.rate_type = MOD_CLOCK_RATE_TYPE_DISCRETE
    /\ page.fail \notin {"get_max_payload_size", "get_info"}

(* C30: a ClockDescribeRates for a discrete clock of N rates is answered   *)
(* the status-only SCMI_OUT_OF_RANGE when its starting index is N or more, *)
(* and not when it is N - 1, which is served; with an index below N and a  *)
(* payload without room for one rate entry it is answered the status-only  *)
(* SCMI_GENERIC_ERROR.  In both refusals no rate entry is written.         *)
C30_IndexAndRoom ==
    [][ DiscreteRequest(last')
        => LET N == page.info.rate_count
               index == last'.payload.rate_index
           IN  /\ index >= N
                    => /\ resp' = <<StatusOnly(last'.service_id,
                                               SCMI_OUT_OF_RANGE)>>
                       /\ wrote' = <<>>
               /\ index < N
                    => resp' # <<StatusOnly(last'.service_id,
                                            SCMI_OUT_OF_RANGE)>>
               /\ (index < N /\ PageCapacity = 0)
                    => /\ resp' = <<StatusOnly(last'.service_id,
                                               SCMI_GENERIC_ERROR)>>
                       /\ wrote' = <<>>
               /\ (index = N - 1 /\ PageCapacity >= 1 /\ page.fail = "none")
                    => /\ Len(resp') = 1
                       /\ resp'[1].status = SCMI_SUCCESS
                       /\ resp'[1].value.num_rates_flags.rate_count = 1
                       /\ resp'[1].value.num_rates_flags.remaining = 0
                       /\ wrote'[1].kind = "rate"
                       /\ wrote'[1].index = N - 1 ]_vars

(* C30 witness: a request for the last rate of a discrete clock found a    *)
(* payload too small for one entry and was answered SCMI_GENERIC_ERROR,    *)
(* with nothing written.                                                   *)
C30_Witness ==
    /\ DiscreteRequest(last)
    /\ page.info.rate_count = MaxRates
    /\ last.payload.rate_index = MaxRates - 1
    /\ PageCapacity = 0
    /\ resp = <<StatusOnly(last.service_id, SCMI_GENERIC_ERROR)>>
    /\ last.ret = FWK_E_SIZE
    /\ wrote = <<>>

----------------------------------------------------------------------------
(* A request event the framework did not accept                            *)

(* The step was a message whose handler reached create_event_request for   *)
(* clock c with the slot free, and no event was queued: the put failed.    *)
SubmissionFailed(step, c, before, after) ==
    /\ step.op = "message"
    /\ step.handler \in TrackedHandlers
    /\ step.cer.called
    /\ step.cer.clock_dev_idx = c
    /\ step.cer.status # FWK_E_BUSY
    /\ after = before

(* C31: when fwk_thread_put_event fails in create_event_request the slot   *)
(* of the target clock stays available with the owner it recorded, the     *)
(* whole operations table is as before, the agent is answered the          *)
(* status-only SCMI_GENERIC_ERROR, and the next message for that clock     *)
(* that reaches create_event_request is not refused as busy.               *)
C31_FailedPutLeavesTheSlotFree ==
    [][ \A c \in ClockDevIdx :
          /\ SubmissionFailed(last', c, queue, queue')
             => /\ clock_ops_is_available(c)
                /\ clock_ops'[c] = clock_ops[c]
                /\ clock_ops'[c].service_id = FWK_ID_NONE
                /\ clock_ops' = clock_ops
                /\ resp' = <<StatusOnly(last'.service_id, SCMI_GENERIC_ERROR)>>
                /\ last'.cer.status # FWK_SUCCESS
          /\ (/\ SubmissionFailed(last, c, <<>>, <<>>)
              /\ last.cer.status # FWK_SUCCESS
              /\ last'.op = "message"
              /\ last'.cer.called
              /\ last'.cer.clock_dev_idx = c)
             => /\ last'.cer.status # FWK_E_BUSY
                /\ \A i \in 1..Len(resp') : resp'[i].status # SCMI_BUSY ]_vars

(* C31 witness: a ConfigSet whose event the framework refused was answered *)
(* SCMI_GENERIC_ERROR while a request of the other clock was outstanding,  *)
(* and the slot of its clock is free.                                      *)
C31_Witness ==
    /\ SubmissionFailed(last, last.cer.clock_dev_idx, <<>>, <<>>)
    /\ last.handler = "CLOCK_CONFIG_SET"
    /\ last.cer.status = FWK_E_NOMEM
    /\ resp = <<StatusOnly(last.service_id, SCMI_GENERIC_ERROR)>>
    /\ clock_ops_is_available(last.cer.clock_dev_idx)
    /\ \E o \in ClockDevIdx : o # last.cer.clock_dev_idx /\ ~clock_ops_is_available(o)
    /\ agent_clock_state # NULL

----------------------------------------------------------------------------
(* The policy decides before the slot is looked at                         *)

(* The step was a ConfigSet for clock c that the pre-message call of the   *)
(* config-set policy skipped                                               *)
SkippedConfigSet(step, calls, c) ==
    /\ PreMessageSkip(step, calls)
    /\ step.handler = "CLOCK_CONFIG_SET"
    /\ calls[1].hook = "config_set"
    /\ get_clock_device_entry(step.service_id, step.payload.clock_id).status
           = FWK_SUCCESS
    /\ PhysicalClock(step.service_id, step.payload.clock_id) = c

(* C32: a ConfigSet that the default policy skips while the slot of its    *)
(* clock is owned by an outstanding request is answered the status-only    *)
(* SCMI_SUCCESS, not SCMI_BUSY: create_event_request and its busy test are *)
(* not reached, and the slot keeps its owner, its requested state, its     *)
(* request kind and its clock index.                                       *)
C32_SkipIsDecidedBeforeBusy ==
    [][ \A c \in ClockDevIdx :
          (SkippedConfigSet(last', hooks', c) /\ Owner(c) # FWK_ID_NONE)
          => /\ resp' = <<StatusOnly(last'.service_id, SCMI_SUCCESS)>>
             /\ ~last'.cer.called
             /\ clock_ops'[c].service_id = clock_ops[c].service_id
             /\ clock_ops'[c].state = clock_ops[c].state
             /\ clock_ops'[c].request = clock_ops[c].request
             /\ clock_ops'[c] = clock_ops[c]
             /\ queue' = queue ]_vars

(* C32 witness: an agent whose committed state is STOPPED asked to enable  *)
(* a clock while another agent's request to stop it was outstanding; the   *)
(* policy skipped it on the reference count and it was answered            *)
(* SCMI_SUCCESS.                                                           *)
C32_Witness ==
    \E c \in ClockDevIdx :
        /\ SkippedConfigSet(last, hooks, c)
        /\ RequestedState(last.payload) = MOD_CLOCK_STATE_RUNNING
        /\ resp = <<StatusOnly(last.service_id, SCMI_SUCCESS)>>
        /\ Owner(c) \notin {FWK_ID_NONE, last.service_id}
        /\ clock_ops[c].request = SCMI_CLOCK_REQUEST_SET_STATE
        /\ clock_ops[c].state = MOD_CLOCK_STATE_STOPPED
        /\ Outstanding(c) = 1
        /\ get_agent_clock_state(last.service_id, last.payload.clock_id,
                                 CommittedStates).state
               = MOD_CLOCK_STATE_STOPPED

----------------------------------------------------------------------------
(* How far a reference count moves                                         *)

(* The larger of two counts *)
Larger(a, b) == IF a >= b THEN a ELSE b

(* The step completed, with FWK_SUCCESS, a set-state request to `state`    *)
(* made under clock index k                                                *)
CommittedAt(step, k, state) ==
    /\ SetStateCompleted(step)
    /\ step.status = FWK_SUCCESS
    /\ clock_ops[step.clock].clock_dev_id = k
    /\ clock_ops[step.clock].state = state

(* C33: under the default state-set policy a reference count moves only    *)
(* from 0 to 1, in the step that commits an enable, and from 1 to 0, in    *)
(* the step that commits a disable; so it never exceeds the larger of its  *)
(* seeded value and 1, and a count seeded at 2 or more stays as seeded.    *)
C33_CountMovesBetweenZeroAndOne ==
    /\ [][ \A k \in ClockDevIdx :
             ReferenceCounts'[k] # ReferenceCounts[k]
             => \/ /\ ReferenceCounts[k] = 0
                   /\ ReferenceCounts'[k] = 1
                   /\ CommittedAt(last', k, MOD_CLOCK_STATE_RUNNING)
                \/ /\ ReferenceCounts[k] = 1
                   /\ ReferenceCounts'[k] = 0
                   /\ CommittedAt(last', k, MOD_CLOCK_STATE_STOPPED) ]_vars
    /\ [](\A k \in ClockDevIdx :
             /\ ReferenceCounts[k] <= Larger(SeededClockCount[k], 1)
             /\ SeededClockCount[k] >= 2
                => ReferenceCounts[k] = SeededClockCount[k])

(* A count seeded at 0 stands at 2: two enables made under one clock index *)
(* for two physical clocks were both dispatched and both committed, the    *)
(* second taking the count from 1 to 2.                                    *)
C33_CountedPastOne ==
    /\ agent_clock_state # NULL
    /\ SetStateCompleted(last)
    /\ \E k \in ClockDevIdx :
          /\ SeededClockCount[k] = 0
          /\ clock_count[k] = 2
          /\ clock_ops[last.clock].clock_dev_id = k
          /\ last.clock # k

====
